---- MODULE Spec2Model ----
(***************************************************************************)
(* Garnet flit visualizer (pages/4_Model.py): the decode -> track ->       *)
(* sample pipeline as a state machine.                                     *)
(*                                                                         *)
(*   main()            checks the log file, calls parse_log, then          *)
(*                     build_mesh_xy and make_animation                    *)
(*   parse_log()       the framing loop (one record per step), the sort,   *)
(*                     the tracking loop (one event per step), the return  *)
(*   make_animation()  the frame loop and the initial figure               *)
(***************************************************************************)
EXTENDS Integers, Sequences, FiniteSets, TLC

(***************************************************************************)
(* Bounds of the explored inputs.                                          *)
(***************************************************************************)
MaxEvents == 3
MaxTick == 1
NumFlows == 2
MaxLoc == 1
MaxInterval == 2
MaxFramed == 3
MaxSampleTick == 3

(***************************************************************************)
(* Program constants.                                                      *)
(***************************************************************************)
MESH_DIMENSION == 4
PrefixLen == 4
SiblingOffset == 12
RouterBaseSize == 10
RouterSizeStep == 5
LinkMinWidth == 2
LinkWidthStep == 2

\* Python's None, for the integer-valued dictionary entries.
None == -1
\* Python's None, for location_type.
NoneType == "None"

(***************************************************************************)
(* Small helpers over sequences.                                           *)
(***************************************************************************)
Min(a, b) == IF a < b THEN a ELSE b
Max(a, b) == IF a > b THEN a ELSE b

RECURSIVE Concat(_)
Concat(ss) == IF ss = <<>> THEN <<>> ELSE Head(ss) \o Concat(Tail(ss))

\* dict.get(k, []) on a mapping whose values are lists
Get(d, k) == IF k \in DOMAIN d THEN d[k] ELSE <<>>

(***************************************************************************)
(* The wire format.  A record is a 4-byte little-endian length followed by *)
(* that many payload bytes.  The payload codec is the generated protobuf   *)
(* class GarnetEvent; it is modelled as one byte per logical field in the  *)
(* order tick, status, global_id, packet_id, id, src, dest, link_id, and a *)
(* payload of any other length fails to parse.                             *)
(***************************************************************************)
StatusTags == <<"RI", "SI", "RR", "ST", "DT", "SE">>

StatusCode(tag) == CHOOSE c \in DOMAIN StatusTags : StatusTags[c] = tag

FieldNames == <<"tick", "status", "global_id", "packet_id", "id", "src", "dest", "link_id">>

PayloadLen == Len(FieldNames)

\* GarnetEvent.SerializeToString: what the simulator writes for one event
Serialize(pb) ==
    <<pb.tick, StatusCode(pb.status), pb.global_id, pb.packet_id, pb.id,
      pb.src, pb.dest, pb.link_id>>

\* GarnetEvent.ParseFromString: raises on a payload that is no message
ParseOk(bytes) == Len(bytes) = PayloadLen /\ bytes[2] \in DOMAIN StatusTags

ParseFromString(bytes) ==
    [tick |-> bytes[1], status |-> StatusTags[bytes[2]], global_id |-> bytes[3],
     packet_id |-> bytes[4], id |-> bytes[5], src |-> bytes[6], dest |-> bytes[7],
     link_id |-> bytes[8]]

\* struct.pack('<I', n)
PackLE(n) ==
    <<n % 256, (n \div 256) % 256, (n \div 65536) % 256, (n \div 16777216) % 256>>

\* struct.unpack('<I', len_bytes)[0]; struct.error unless exactly 4 bytes
UnpackOk(len_bytes) == Len(len_bytes) = PrefixLen

\* the prefix read with the most significant byte first
UnpackBE(len_bytes) ==
    16777216 * len_bytes[1] + 65536 * len_bytes[2] + 256 * len_bytes[3] + len_bytes[4]

UnpackLE(len_bytes) ==
    len_bytes[1] + 256 * len_bytes[2] + 65536 * len_bytes[3] + 16777216 * len_bytes[4]

\* f.read(n) at offset pos (0-based): at most n bytes, fewer at end of file
FRead(data, at, n) == SubSeq(data, at + 1, Min(at + n, Len(data)))

\* one framed record
Frame(payload) == PackLE(Len(payload)) \o payload

(***************************************************************************)
(* The logs the simulator may have written.                                *)
(***************************************************************************)
Ticks == 0..MaxTick
Flows == 1..NumFlows
Locs == 0..MaxLoc

Msg(t, st, g, s, d, l) ==
    [tick |-> t, status |-> st, global_id |-> g, packet_id |-> 0, id |-> 0,
     src |-> s, dest |-> d, link_id |-> l]

\* every kind of event for the first flow (receive and link start at every
\* location), inject and receive for the others
TrackMsgs ==
    {Msg(t, "RI", g, 0, 1, 0) : t \in Ticks, g \in Flows}
    \cup {Msg(t, st, 1, 0, 0, l) : t \in Ticks, st \in {"RR", "ST"}, l \in Locs}
    \cup {Msg(t, st, 1, 0, 0, 0) : t \in Ticks, st \in {"SI", "DT"}}
    \cup {Msg(t, "RR", g, 0, 0, 0) : t \in Ticks, g \in Flows \ {1}}
    \cup {Msg(t, "SE", 1, 0, 0, 0) : t \in Ticks}

SeqsUpTo(S, n) == UNION {[1..k -> S] : k \in 0..n}

\* well-formed logs: every record framed and parsable, end of file on a boundary
TrackFiles == {Concat([i \in DOMAIN s |-> Frame(Serialize(s[i]))]) : s \in SeqsUpTo(TrackMsgs, MaxEvents)}

\* the end-to-end scenario of the specification, section 8
E2ELog ==
    <<Msg(0, "RI", 1, 0, 3, 0), Msg(0, "RR", 1, 0, 0, 0), Msg(10, "ST", 1, 0, 0, 5),
      Msg(20, "RR", 1, 0, 0, 1), Msg(30, "SE", 1, 0, 0, 0)>>

E2EFile == Concat([i \in DOMAIN E2ELog |-> Frame(Serialize(E2ELog[i]))])

\* damaged logs: records that are parsable or corrupt, then a clean end, a
\* short length prefix or a truncated payload
FramedMsgs == {Msg(0, "RI", 1, 0, 1, 0), Msg(1, "RR", 1, 0, 0, 1), Msg(0, "RR", 1, 0, 0, 0)}

CorruptPayload == <<255>>

Tails ==
    {<<>>, <<8>>, <<8, 0, 0>>, PackLE(PayloadLen) \o <<0, 1, 1>>, PackLE(PayloadLen)}

FramedFiles ==
    {Concat(s) \o tl :
        s \in SeqsUpTo({Frame(Serialize(m)) : m \in FramedMsgs} \cup {Frame(CorruptPayload)}, MaxFramed),
        tl \in Tails}

\* logs of one flow spread over more ticks, for the sampling of frames
SampleMsgs ==
    {Msg(t, "RI", 1, 0, 1, 0) : t \in 0..MaxSampleTick}
    \cup {Msg(t, st, 1, 0, 0, 0) : t \in 0..MaxSampleTick, st \in {"RR", "ST"}}

SampleFiles == {Concat([i \in DOMAIN s |-> Frame(Serialize(s[i]))]) : s \in SeqsUpTo(SampleMsgs, MaxEvents)}

\* logs in which one flow is injected more than once, with other endpoints
ReinjectMsgs ==
    {Msg(t, "RI", 1, 0, 1, 0) : t \in Ticks}
    \cup {Msg(t, "RI", 1, 1, 0, 0) : t \in Ticks}
    \cup {Msg(t, st, 1, 0, 0, 0) : t \in Ticks, st \in {"RR", "ST"}}

ReinjectFiles == {Concat([i \in DOMAIN s |-> Frame(Serialize(s[i]))]) : s \in SeqsUpTo(ReinjectMsgs, MaxEvents)}

\* the sampling intervals tried: the small ones and that of the end-to-end scenario
Intervals == (1..MaxInterval) \cup {10}

(***************************************************************************)
(* Program state.                                                          *)
(***************************************************************************)
VARIABLES
    file,            \* the log on disk: [exists, data], data a sequence of bytes
    pc,              \* position in main / parse_log
    pos,             \* parse_log: offset of the open file f
    events,          \* parse_log: events
    idx,             \* parse_log: index of the tracking loop in events (1-based)
    flit_locations,  \* parse_log: dict global_id -> location info, in insertion order
    tick_states,     \* parse_log: dict tick -> snapshot
    snapshots,       \* main: the value parse_log returned
    fig,             \* main: the figure make_animation returned
    ui,              \* the st.success / st.error / st.warning / st.info calls so far
    mesh_dim,        \* build_mesh_xy: its argument n
    mesh,            \* main: the routers and links build_mesh_xy returned
    cache,           \* st.cache_data: the stored results of parse_log, by argument
    session_state,   \* st.session_state of the run page and its ConfigManager
    clicks,          \* run page: clicks of the run button so far
    invocations      \* run page: calls of subprocess.run so far

vars == <<file, pc, pos, events, idx, flit_locations, tick_states, snapshots, fig, ui,
          mesh_dim, mesh, cache, session_state, clicks, invocations>>

\* the empty dict
EmptyDict == [k \in {} |-> <<>>]

\* main has not built the mesh
NoMesh == [routers |-> EmptyDict, links |-> EmptyDict]

\* line 9: the one argument parse_log is called with
LOG_FILE_PATH == "traces/garnet_event_log.bin"

\* line 15, @st.cache_data: the result of a call is stored under its
\* argument, with the st.* calls made during the call, which a later call
\* with the same argument replays instead of running the function
CachePut(c, filename, value, messages) ==
    [k \in DOMAIN c \cup {filename} |->
        IF k = filename THEN [value |-> value, replay |-> messages] ELSE c[k]]

\* main has no figure: make_animation was not called, or raised ValueError
NoFig == [built |-> FALSE, raised |-> FALSE]

(***************************************************************************)
(* parse_log, lines 60-79: the dictionary stored for one decoded message.  *)
(***************************************************************************)
EvtData(event_pb) ==
    [tick |-> event_pb.tick,
     event |-> event_pb.status,
     global_id |-> event_pb.global_id,
     pack_id |-> event_pb.packet_id,
     flit_id |-> event_pb.id,
     src |-> IF event_pb.status = "RI" THEN event_pb.src ELSE None,
     dest |-> IF event_pb.status = "RI" THEN event_pb.dest ELSE None,
     location_id |-> IF event_pb.status \in {"SI", "RR", "ST", "DT"}
                     THEN event_pb.link_id ELSE None]

(***************************************************************************)
(* parse_log, line 89: events.sort(key=lambda x: x['tick']).  list.sort is *)
(* stable: an event is inserted after every event whose tick is not larger.*)
(***************************************************************************)
\* a sort that is not stable: an event goes before the events of its own tick
RECURSIVE InsertBeforeTies(_, _)
InsertBeforeTies(sorted, e) ==
    IF sorted = <<>> THEN <<e>>
    ELSE IF sorted[Len(sorted)].tick < e.tick THEN Append(sorted, e)
    ELSE Append(InsertBeforeTies(SubSeq(sorted, 1, Len(sorted) - 1), e), sorted[Len(sorted)])

RECURSIVE InsertByTick(_, _)
InsertByTick(sorted, e) ==
    IF sorted = <<>> THEN <<e>>
    ELSE IF sorted[Len(sorted)].tick <= e.tick THEN Append(sorted, e)
    ELSE Append(InsertByTick(SubSeq(sorted, 1, Len(sorted) - 1), e), sorted[Len(sorted)])

RECURSIVE SortByTick(_)
SortByTick(evs) ==
    IF evs = <<>> THEN <<>>
    ELSE InsertByTick(SortByTick(SubSeq(evs, 1, Len(evs) - 1)), evs[Len(evs)])

(***************************************************************************)
(* parse_log, lines 94-144: one event applied to flit_locations.  The dict *)
(* is a sequence of entries in insertion order, one entry per key.         *)
(***************************************************************************)
Keys(fl) == {fl[i].global_id : i \in DOMAIN fl}

KeyIndex(fl, gid) == CHOOSE i \in DOMAIN fl : fl[i].global_id = gid

\* flit_locations = {gid: entry}: the table is replaced, not updated
DictSetFresh(fl, gid, entry) == <<entry>>

\* flit_locations.setdefault(gid, entry): the entry of a known flow is kept
DictSetDefault(fl, gid, entry) ==
    IF gid \in Keys(fl) THEN fl ELSE Append(fl, entry)

\* flit_locations[gid] = entry
DictSet(fl, gid, entry) ==
    IF gid \in Keys(fl)
    THEN [fl EXCEPT ![KeyIndex(fl, gid)] = entry]
    ELSE Append(fl, entry)

\* the Inject of a known flow keeps the location the flow has
InjectKeepPlace(fl, evt) ==
    IF evt.event = "RI"
    THEN DictSet(fl, evt.global_id,
                 [global_id |-> evt.global_id, src |-> evt.src, dest |-> evt.dest,
                  pack_id |-> evt.pack_id, flit_id |-> evt.flit_id,
                  location_type |-> IF evt.global_id \in Keys(fl)
                                    THEN fl[KeyIndex(fl, evt.global_id)].location_type
                                    ELSE NoneType,
                  location_id |-> IF evt.global_id \in Keys(fl)
                                  THEN fl[KeyIndex(fl, evt.global_id)].location_id
                                  ELSE None])
    ELSE fl

\* the injected flit is placed at its source router at once
InjectAtSrc(fl, evt) ==
    IF evt.event = "RI"
    THEN DictSet(fl, evt.global_id,
                 [global_id |-> evt.global_id, src |-> evt.src, dest |-> evt.dest,
                  pack_id |-> evt.pack_id, flit_id |-> evt.flit_id,
                  location_type |-> "router", location_id |-> evt.src])
    ELSE fl

\* lines 102-112
Inject(fl, evt) ==
    IF evt.event = "RI"
    THEN DictSet(fl, evt.global_id,
                 [global_id |-> evt.global_id, src |-> evt.src, dest |-> evt.dest,
                  pack_id |-> evt.pack_id, flit_id |-> evt.flit_id,
                  location_type |-> NoneType, location_id |-> None])
    ELSE fl

\* lines 115-144
SetLocation(fl, gid, type, id) ==
    [fl EXCEPT ![KeyIndex(fl, gid)].location_type = type,
               ![KeyIndex(fl, gid)].location_id = id]

\* a flit that starts on a link is added there and not removed from where it was
UpdateLocationKeepOld(fl, evt) ==
    IF evt.global_id \in Keys(fl)
    THEN CASE evt.event = "SI" -> SetLocation(fl, evt.global_id, "router", evt.location_id)
           [] evt.event = "RR" -> SetLocation(fl, evt.global_id, "router", evt.location_id)
           [] evt.event \in {"ST", "DT"} ->
                Append(fl, [fl[KeyIndex(fl, evt.global_id)] EXCEPT
                              !.location_type = "link", !.location_id = evt.location_id])
           [] evt.event = "SE" -> SetLocation(fl, evt.global_id, "ejected", None)
           [] OTHER -> fl
    ELSE fl

\* a router event for a flow that is not in the table puts it in the table
UpdateLocationUntracked(fl, evt) ==
    IF evt.global_id \in Keys(fl)
    THEN CASE evt.event = "SI" -> SetLocation(fl, evt.global_id, "router", evt.location_id)
           [] evt.event = "RR" -> SetLocation(fl, evt.global_id, "router", evt.location_id)
           [] evt.event = "ST" -> SetLocation(fl, evt.global_id, "link", evt.location_id)
           [] evt.event = "DT" -> SetLocation(fl, evt.global_id, "link", evt.location_id)
           [] evt.event = "SE" -> SetLocation(fl, evt.global_id, "ejected", None)
           [] OTHER -> fl
    ELSE IF evt.event \in {"SI", "RR"}
         THEN Append(fl, [global_id |-> evt.global_id, src |-> None, dest |-> None,
                          pack_id |-> evt.pack_id, flit_id |-> evt.flit_id,
                          location_type |-> "router", location_id |-> evt.location_id])
         ELSE fl

\* a link start is recorded as a router
UpdateLocationStartAtRouter(fl, evt) ==
    IF evt.global_id \in Keys(fl)
    THEN CASE evt.event = "SI" -> SetLocation(fl, evt.global_id, "router", evt.location_id)
           [] evt.event = "RR" -> SetLocation(fl, evt.global_id, "router", evt.location_id)
           [] evt.event = "ST" -> SetLocation(fl, evt.global_id, "router", evt.location_id)
           [] evt.event = "DT" -> SetLocation(fl, evt.global_id, "link", evt.location_id)
           [] evt.event = "SE" -> SetLocation(fl, evt.global_id, "ejected", None)
           [] OTHER -> fl
    ELSE fl

UpdateLocation(fl, evt) ==
    IF evt.global_id \in Keys(fl)
    THEN CASE evt.event = "SI" -> SetLocation(fl, evt.global_id, "router", evt.location_id)
           [] evt.event = "RR" -> SetLocation(fl, evt.global_id, "router", evt.location_id)
           [] evt.event = "ST" -> SetLocation(fl, evt.global_id, "link", evt.location_id)
           [] evt.event = "DT" -> SetLocation(fl, evt.global_id, "link", evt.location_id)
           [] evt.event = "SE" -> SetLocation(fl, evt.global_id, "ejected", None)
           [] OTHER -> fl
    ELSE fl

\* lines 114-144: every `if global_id in flit_locations:` is without an else
\* branch, and parse_log has no variable that counts the events failing the
\* test; the count it has recorded of them when it returns
untracked_count == 0

ApplyToLocations(fl, evt) == UpdateLocation(Inject(fl, evt), evt)

(***************************************************************************)
(* parse_log, lines 146-171: the snapshot of all flits placed at a router  *)
(* or on a link.  A defaultdict(list) has a key for every id appended to.  *)
(***************************************************************************)
\* src and dest of the summary exchanged
FlitInfoSwapped(loc) ==
    [global_id |-> loc.global_id, src |-> loc.dest, dest |-> loc.src,
     pack_id |-> loc.pack_id, flit_id |-> loc.flit_id]

FlitInfo(loc) ==
    [global_id |-> loc.global_id, src |-> loc.src, dest |-> loc.dest,
     pack_id |-> loc.pack_id, flit_id |-> loc.flit_id]

RECURSIVE MapFlitInfo(_)
MapFlitInfo(locs) ==
    IF locs = <<>> THEN <<>> ELSE <<FlitInfo(Head(locs))>> \o MapFlitInfo(Tail(locs))

AtRouter(loc) == loc.location_type = "router" /\ loc.location_id # None

OnLink(loc) == ~AtRouter(loc) /\ loc.location_type = "link" /\ loc.location_id # None

FlitsAtRouter(fl, r) ==
    LET Here(loc) == AtRouter(loc) /\ loc.location_id = r
    IN  MapFlitInfo(SelectSeq(fl, Here))

FlitsOnLink(fl, l) ==
    LET Here(loc) == OnLink(loc) /\ loc.location_id = l
    IN  MapFlitInfo(SelectSeq(fl, Here))

Snapshot(fl) ==
    [routers |-> [r \in {fl[i].location_id : i \in {j \in DOMAIN fl : AtRouter(fl[j])}}
                    |-> FlitsAtRouter(fl, r)],
     links |-> [l \in {fl[i].location_id : i \in {j \in DOMAIN fl : OnLink(fl[j])}}
                    |-> FlitsOnLink(fl, l)]]

\* a tick whose snapshot holds no flit gets no entry
StoreNonEmpty(ts, tick, snapshot) ==
    IF DOMAIN snapshot.routers = {} /\ DOMAIN snapshot.links = {}
    THEN ts
    ELSE [t \in DOMAIN ts \cup {tick} |-> IF t = tick THEN snapshot ELSE ts[t]]

\* every tick refers to the one live snapshot
StoreAliased(ts, tick, snapshot) ==
    [t \in DOMAIN ts \cup {tick} |-> snapshot]

\* tick_states[tick] = snapshot
Store(ts, tick, snapshot) ==
    [t \in DOMAIN ts \cup {tick} |-> IF t = tick THEN snapshot ELSE ts[t]]

(***************************************************************************)
(* build_mesh_xy, lines 180-226.  Each of the four loop nests visits the   *)
(* n*n (outer, inner) pairs in order and adds a link where inner + 1 < n.  *)
(***************************************************************************)
\* the nests over (row, col): i runs over row * n + col
RECURSIVE RowLoop(_, _, _)
RowLoop(n, i, reversed) ==
    IF i >= n * n THEN <<>>
    ELSE LET row == i \div n
             col == i % n
             a == col + (row * n)
             b == (col + 1) + (row * n)
         IN  (IF col + 1 < n THEN <<IF reversed THEN <<b, a>> ELSE <<a, b>>>> ELSE <<>>)
             \o RowLoop(n, i + 1, reversed)

\* the nests over (col, row): i runs over col * n + row
RECURSIVE ColLoop(_, _, _)
ColLoop(n, i, reversed) ==
    IF i >= n * n THEN <<>>
    ELSE LET col == i \div n
             row == i % n
             a == col + (row * n)
             b == col + ((row + 1) * n)
         IN  (IF row + 1 < n THEN <<IF reversed THEN <<b, a>> ELSE <<a, b>>>> ELSE <<>>)
             \o ColLoop(n, i + 1, reversed)

\* the loop nests in another order: east, north, west, south
build_mesh_xy_reordered(n) ==
    LET added == RowLoop(n, 0, FALSE) \o ColLoop(n, 0, FALSE)
                 \o RowLoop(n, 0, TRUE) \o ColLoop(n, 0, TRUE)
    IN  [routers |-> [r \in 0..(n * n - 1) |-> <<r \div n, r % n>>],
         links |-> [lid \in 0..(Len(added) - 1) |-> added[lid + 1]]]

\* the fourth loop nest is left out
build_mesh_xy_three_nests(n) ==
    LET added == RowLoop(n, 0, FALSE) \o RowLoop(n, 0, TRUE) \o ColLoop(n, 0, FALSE)
    IN  [routers |-> [r \in 0..(n * n - 1) |-> <<r \div n, r % n>>],
         links |-> [lid \in 0..(Len(added) - 1) |-> added[lid + 1]]]

build_mesh_xy(n) ==
    LET added == RowLoop(n, 0, FALSE) \o RowLoop(n, 0, TRUE)
                 \o ColLoop(n, 0, FALSE) \o ColLoop(n, 0, TRUE)
    IN  [routers |-> [r \in 0..(n * n - 1) |-> <<r \div n, r % n>>],
         links |-> [lid \in 0..(Len(added) - 1) |-> added[lid + 1]]]

(***************************************************************************)
(* make_animation, lines 229-417.                                          *)
(***************************************************************************)
EmptySnap == [routers |-> EmptyDict, links |-> EmptyDict]

SetMax(S) == CHOOSE m \in S : \A x \in S : x <= m

\* a range that runs one step too far
RECURSIVE PyRangeInclusive(_, _, _)
PyRangeInclusive(start, stop, step) ==
    IF start > stop THEN <<>> ELSE <<start>> \o PyRangeInclusive(start + step, stop, step)

\* list(range(0, stop, step))
RECURSIVE PyRange(_, _, _)
PyRange(start, stop, step) ==
    IF start >= stop THEN <<>> ELSE <<start>> \o PyRange(start + step, stop, step)

\* only a snapshot taken exactly at t is shown
SnapAtExact(snaps, t) == IF t \in DOMAIN snaps THEN snaps[t] ELSE EmptySnap

\* before the first snapshot the first snapshot is shown
SnapAtOrFirst(snaps, t) ==
    LET available_ticks == {tk \in DOMAIN snaps : tk <= t}
    IN  IF available_ticks # {} THEN snaps[SetMax(available_ticks)]
        ELSE snaps[CHOOSE m \in DOMAIN snaps : \A x \in DOMAIN snaps : m <= x]

\* lines 241-246: the most recent snapshot <= t
SnapAt(snaps, t) ==
    LET available_ticks == {tk \in DOMAIN snaps : tk <= t}
    IN  IF available_ticks # {} THEN snaps[SetMax(available_ticks)] ELSE EmptySnap

\* the marker grows by one step whatever the number of flits
RouterTraceOneStep(snap, r) ==
    [size |-> (IF Len(Get(snap.routers, r)) > 0 THEN RouterSizeStep ELSE 0) + RouterBaseSize,
     color |-> IF Len(Get(snap.routers, r)) > 0 THEN "green" ELSE "steelblue",
     text |-> Get(snap.routers, r)]

\* lines 248-263: the marker of router r
RouterTrace(snap, r) ==
    [size |-> Len(Get(snap.routers, r)) * RouterSizeStep + RouterBaseSize,
     color |-> IF Len(Get(snap.routers, r)) > 0 THEN "green" ELSE "steelblue",
     text |-> Get(snap.routers, r)]

\* the line of a link is coloured by the flits of that link alone
LinkTraceOwn(snap, lid, ab) ==
    LET flits == Get(snap.links, lid)
    IN  [width |-> Max(LinkMinWidth, Len(flits) * LinkWidthStep),
         color |-> IF Len(flits) > 0 THEN "red" ELSE "lightgray",
         text |-> flits]

\* lines 267-303: the line of link lid = (a, b)
LinkTrace(snap, lid, ab) ==
    LET flits == Get(snap.links, lid)
        flits1 == IF ab[1] > ab[2] THEN Get(snap.links, lid - SiblingOffset)
                  ELSE Get(snap.links, lid + SiblingOffset)
        flag == Len(flits1) > 0 \/ Len(flits) > 0
    IN  [width |-> Max(LinkMinWidth, Len(flits) * LinkWidthStep),
         color |-> IF flag THEN "red" ELSE "lightgray",
         text |-> flits]

\* lines 240-315: go.Frame for sample point t
MakeFrame(snaps, routers, links, t) ==
    LET snap == SnapAt(snaps, t)
    IN  [name |-> t,
         routers |-> [r \in DOMAIN routers |-> RouterTrace(snap, r)],
         links |-> [lid \in DOMAIN links |-> LinkTrace(snap, lid, links[lid])]]

\* lines 317-373: the traces the figure starts with
InitialData(snaps, routers, links, t0) ==
    LET snap == IF t0 \in DOMAIN snaps THEN snaps[t0] ELSE EmptySnap
    IN  [routers |-> [r \in DOMAIN routers |->
                        [size |-> Len(Get(snap.routers, r)) * RouterSizeStep + RouterBaseSize,
                         color |-> "steelblue",
                         text |-> Get(snap.routers, r)]],
         links |-> [lid \in DOMAIN links |->
                        [width |-> Max(LinkMinWidth, Len(Get(snap.links, lid)) * LinkWidthStep),
                         color |-> IF Len(Get(snap.links, lid)) > 0 THEN "red" ELSE "lightgray",
                         text |-> Get(snap.links, lid)]]]

\* an empty mapping gives an animation without frames
make_animation_no_raise(snaps, routers, links, interval) ==
    IF DOMAIN snaps = {}
    THEN [built |-> TRUE, raised |-> FALSE, interval |-> interval,
          data |-> InitialData(snaps, routers, links, 0),
          steps |-> <<>>, frames |-> <<>>]
    ELSE LET max_tick == SetMax(DOMAIN snaps)
             ticks == PyRange(0, max_tick + 1, interval)
         IN  [built |-> TRUE,
              raised |-> FALSE,
              interval |-> interval,
              data |-> InitialData(snaps, routers, links, ticks[1]),
              steps |-> ticks,
              frames |-> [i \in DOMAIN ticks |-> MakeFrame(snaps, routers, links, ticks[i])]]

\* lines 231-232 raise ValueError on an empty mapping
make_animation(snaps, routers, links, interval) ==
    IF DOMAIN snaps = {} THEN [built |-> FALSE, raised |-> TRUE]
    ELSE LET max_tick == SetMax(DOMAIN snaps)
             ticks == PyRange(0, max_tick + 1, interval)
         IN  [built |-> TRUE,
              raised |-> FALSE,
              interval |-> interval,
              data |-> InitialData(snaps, routers, links, ticks[1]),
              steps |-> ticks,
              frames |-> [i \in DOMAIN ticks |-> MakeFrame(snaps, routers, links, ticks[i])]]

(***************************************************************************)
(* Initial state: main() is about to run on one of the logs.               *)
(***************************************************************************)
Files ==
    {[exists |-> TRUE, data |-> d] : d \in TrackFiles \cup SampleFiles \cup FramedFiles \cup ReinjectFiles \cup {E2EFile}}
    \cup {[exists |-> FALSE, data |-> <<>>]}

Init ==
    /\ file \in Files
    /\ pc = "main"
    /\ pos = 0
    /\ events = <<>>
    /\ idx = 0
    /\ flit_locations = <<>>
    /\ tick_states = EmptyDict
    /\ snapshots = EmptyDict
    /\ fig = NoFig
    /\ ui = <<>>
    /\ mesh_dim = MESH_DIMENSION
    /\ mesh = NoMesh
    /\ cache = EmptyDict
    /\ session_state = EmptyDict
    /\ clicks = 0
    /\ invocations = 0

(***************************************************************************)
(* main, lines 425-430 and 445-449.                                        *)
(***************************************************************************)
MainFileFound ==
    /\ pc = "main"
    /\ file.exists
    /\ LOG_FILE_PATH \notin DOMAIN cache
    /\ ui' = Append(ui, "success: Log file found")
    /\ pc' = "read"
    /\ UNCHANGED <<file, pos, events, idx, flit_locations, tick_states, snapshots, fig>>
    /\ UNCHANGED <<mesh_dim, mesh, cache, session_state, clicks, invocations>>

\* the missing file is handed to parse_log all the same
MainFileMissingParsed ==
    /\ pc = "main"
    /\ ~file.exists
    /\ ui' = ui \o <<"error: Log file not found.", "info: looking for the log file at",
                     "warning: ensure the simulation has run">>
    /\ pc' = "read"
    /\ UNCHANGED <<file, pos, events, idx, flit_locations, tick_states, snapshots, fig>>
    /\ UNCHANGED <<mesh_dim, mesh, cache, session_state, clicks, invocations>>

MainFileMissing ==
    /\ pc = "main"
    /\ ~file.exists
    /\ ui' = ui \o <<"error: Log file not found.", "info: looking for the log file at",
                     "warning: ensure the simulation has run">>
    /\ pc' = "done"
    /\ UNCHANGED <<file, pos, events, idx, flit_locations, tick_states, snapshots, fig>>
    /\ UNCHANGED <<mesh_dim, mesh, cache, session_state, clicks, invocations>>

(***************************************************************************)
(* parse_log, lines 33-79: one iteration of the framing loop.              *)
(***************************************************************************)
len_bytes == FRead(file.data, pos, PrefixLen)

msg_len == UnpackLE(len_bytes)

msg_bytes == FRead(file.data, pos + PrefixLen, msg_len)

\* lines 36-37: end of file, break
ReadEof ==
    /\ pc = "read"
    /\ len_bytes = <<>>
    /\ pc' = "sort"
    /\ UNCHANGED <<file, pos, events, idx, flit_locations, tick_states, snapshots, fig, ui>>
    /\ UNCHANGED <<mesh_dim, mesh, cache, session_state, clicks, invocations>>

\* lines 40-44: struct.error, return {}
ReadBadPrefix ==
    /\ pc = "read"
    /\ len_bytes # <<>>
    /\ ~UnpackOk(len_bytes)
    /\ ui' = Append(ui, "error: Error unpacking message length")
    /\ pos' = pos + Len(len_bytes)
    /\ snapshots' = EmptyDict
    /\ cache' = CachePut(cache, LOG_FILE_PATH, snapshots', SubSeq(ui', 2, Len(ui')))
    /\ pc' = "check"
    /\ UNCHANGED <<file, events, idx, flit_locations, tick_states, fig>>
    /\ UNCHANGED <<mesh_dim, mesh, session_state, clicks, invocations>>

\* the short payload is treated like the short prefix: return {}
ReadTruncatedAbort ==
    /\ pc = "read"
    /\ len_bytes # <<>>
    /\ UnpackOk(len_bytes)
    /\ Len(msg_bytes) # msg_len
    /\ ui' = Append(ui, "warning: Truncated file")
    /\ pos' = pos + PrefixLen + Len(msg_bytes)
    /\ snapshots' = EmptyDict
    /\ cache' = CachePut(cache, LOG_FILE_PATH, snapshots', SubSeq(ui', 2, Len(ui')))
    /\ pc' = "check"
    /\ UNCHANGED <<file, events, idx, flit_locations, tick_states, fig>>
    /\ UNCHANGED <<mesh_dim, mesh, session_state, clicks, invocations>>

\* lines 47-50: short payload, break
ReadTruncated ==
    /\ pc = "read"
    /\ len_bytes # <<>>
    /\ UnpackOk(len_bytes)
    /\ Len(msg_bytes) # msg_len
    /\ ui' = Append(ui, "warning: Truncated file")
    /\ pos' = pos + PrefixLen + Len(msg_bytes)
    /\ pc' = "sort"
    /\ UNCHANGED <<file, events, idx, flit_locations, tick_states, snapshots, fig>>
    /\ UNCHANGED <<mesh_dim, mesh, cache, session_state, clicks, invocations>>

\* the unparsable payload ends the loop instead of being skipped
ReadParseErrorBreak ==
    /\ pc = "read"
    /\ len_bytes # <<>>
    /\ UnpackOk(len_bytes)
    /\ Len(msg_bytes) = msg_len
    /\ ~ParseOk(msg_bytes)
    /\ ui' = Append(ui, "warning: Error parsing protobuf message")
    /\ pos' = pos + PrefixLen + msg_len
    /\ pc' = "sort"
    /\ UNCHANGED <<file, events, idx, flit_locations, tick_states, snapshots, fig>>
    /\ UNCHANGED <<mesh_dim, mesh, cache, session_state, clicks, invocations>>

\* lines 53-58: the payload does not parse, continue
ReadParseError ==
    /\ pc = "read"
    /\ len_bytes # <<>>
    /\ UnpackOk(len_bytes)
    /\ Len(msg_bytes) = msg_len
    /\ ~ParseOk(msg_bytes)
    /\ ui' = Append(ui, "warning: Error parsing protobuf message")
    /\ pos' = pos + PrefixLen + msg_len
    /\ UNCHANGED <<file, pc, events, idx, flit_locations, tick_states, snapshots, fig>>
    /\ UNCHANGED <<mesh_dim, mesh, cache, session_state, clicks, invocations>>

\* lines 53-79: the event is appended
ReadEvent ==
    /\ pc = "read"
    /\ len_bytes # <<>>
    /\ UnpackOk(len_bytes)
    /\ Len(msg_bytes) = msg_len
    /\ ParseOk(msg_bytes)
    /\ events' = Append(events, EvtData(ParseFromString(msg_bytes)))
    /\ pos' = pos + PrefixLen + msg_len
    /\ UNCHANGED <<file, pc, idx, flit_locations, tick_states, snapshots, fig, ui>>
    /\ UNCHANGED <<mesh_dim, mesh, cache, session_state, clicks, invocations>>

(***************************************************************************)
(* parse_log, lines 88-175.                                                *)
(***************************************************************************)
\* line 89
SortEvents ==
    /\ pc = "sort"
    /\ events' = SortByTick(events)
    /\ idx' = 1
    /\ pc' = "track"
    /\ UNCHANGED <<file, pos, flit_locations, tick_states, snapshots, fig, ui>>
    /\ UNCHANGED <<mesh_dim, mesh, cache, session_state, clicks, invocations>>

\* lines 94-173: one iteration of the tracking loop
ApplyEvent ==
    /\ pc = "track"
    /\ idx <= Len(events)
    /\ flit_locations' = ApplyToLocations(flit_locations, events[idx])
    /\ tick_states' = Store(tick_states, events[idx].tick, Snapshot(flit_locations'))
    /\ idx' = idx + 1
    /\ UNCHANGED <<file, pc, pos, events, snapshots, fig, ui>>
    /\ UNCHANGED <<mesh_dim, mesh, cache, session_state, clicks, invocations>>

\* line 175
ReturnTickStates ==
    /\ pc = "track"
    /\ idx > Len(events)
    /\ snapshots' = tick_states
    /\ cache' = CachePut(cache, LOG_FILE_PATH, snapshots', SubSeq(ui, 2, Len(ui)))
    /\ pc' = "check"
    /\ UNCHANGED <<file, pos, events, idx, flit_locations, tick_states, fig, ui>>
    /\ UNCHANGED <<mesh_dim, mesh, session_state, clicks, invocations>>

(***************************************************************************)
(* main, lines 432-443.  The interval make_animation is called with is a   *)
(* configuration value (ANIMATION_INTERVAL); it ranges over Intervals.     *)
(***************************************************************************)
Mesh == build_mesh_xy(MESH_DIMENSION)

MainNoData ==
    /\ pc = "check"
    /\ DOMAIN snapshots = {}
    /\ ui' = Append(ui, "error: Log file was found but no data could be parsed")
    /\ pc' = "done"
    /\ UNCHANGED <<file, pos, events, idx, flit_locations, tick_states, snapshots, fig>>
    /\ UNCHANGED <<mesh_dim, mesh, cache, session_state, clicks, invocations>>

MainAnimate ==
    /\ pc = "check"
    /\ DOMAIN snapshots # {}
    /\ \E interval \in Intervals :
          fig' = make_animation(snapshots, Mesh.routers, Mesh.links, interval)
    /\ mesh' = Mesh
    /\ ui' = Append(ui, "info: Log file parsed")
    /\ pc' = "done"
    /\ UNCHANGED <<file, pos, events, idx, flit_locations, tick_states, snapshots>>
    /\ UNCHANGED <<mesh_dim, cache, session_state, clicks, invocations>>

Next ==
    \/ MainFileFound
    \/ MainFileMissing
    \/ ReadEof
    \/ ReadBadPrefix
    \/ ReadTruncated
    \/ ReadParseError
    \/ ReadEvent
    \/ SortEvents
    \/ ApplyEvent
    \/ ReturnTickStates
    \/ MainNoData
    \/ MainAnimate

Spec == Init /\ [][Next]_vars

(***************************************************************************)
(* make_animation called on its own: with a mapping parse_log can return   *)
(* or with the empty mapping, which main never passes on.                  *)
(***************************************************************************)
\* the events of up to MaxAnimEvents sample messages, as parse_log sorts them
MaxAnimEvents == 3

AnimEventLists == {SortByTick([i \in DOMAIN s |-> EvtData(s[i])]) : s \in SeqsUpTo(SampleMsgs, MaxAnimEvents)}

\* lines 94-175 on a sorted list of events
RECURSIVE TrackFrom(_, _, _)
TrackFrom(fl, ts, evs) ==
    IF evs = <<>> THEN ts
    ELSE LET fl2 == ApplyToLocations(fl, Head(evs))
         IN  TrackFrom(fl2, Store(ts, Head(evs).tick, Snapshot(fl2)), Tail(evs))

\* two flows that can be at one router or on one link together, and on the
\* two links of one pair of routers
MaxCrowdEvents == 4

CrowdMsgs ==
    {Msg(0, "RI", g, 0, 1, 0) : g \in Flows}
    \cup {Msg(0, "RR", 1, 0, 0, 0)}
    \cup {Msg(t, "RR", 2, 0, 0, 0) : t \in Ticks}
    \cup {Msg(t, "ST", 1, 0, 0, l) : t \in Ticks, l \in {0, SiblingOffset}}
    \cup {Msg(t, "ST", 2, 0, 0, 0) : t \in Ticks}

CrowdEventLists == {SortByTick([i \in DOMAIN s |-> EvtData(s[i])]) : s \in SeqsUpTo(CrowdMsgs, MaxCrowdEvents)}

AnimSnapshots == {TrackFrom(<<>>, EmptyDict, evs) : evs \in AnimEventLists \cup CrowdEventLists}

InitAnim ==
    /\ file = [exists |-> FALSE, data |-> <<>>]
    /\ pc = "anim"
    /\ pos = 0
    /\ events = <<>>
    /\ idx = 0
    /\ flit_locations = <<>>
    /\ tick_states = EmptyDict
    /\ snapshots \in AnimSnapshots
    /\ fig = NoFig
    /\ ui = <<>>
    /\ mesh_dim = MESH_DIMENSION
    /\ mesh = Mesh
    /\ cache = EmptyDict
    /\ session_state = EmptyDict
    /\ clicks = 0
    /\ invocations = 0

\* lines 229-417: one call, with any of the intervals
CallMakeAnimation ==
    /\ pc = "anim"
    /\ \E interval \in Intervals :
          fig' = make_animation(snapshots, mesh.routers, mesh.links, interval)
    /\ pc' = "animated"
    /\ UNCHANGED <<file, pos, events, idx, flit_locations, tick_states, snapshots, ui>>
    /\ UNCHANGED <<mesh_dim, mesh, cache, session_state, clicks, invocations>>

NextAnim == CallMakeAnimation

SpecAnim == InitAnim /\ [][NextAnim]_vars

(***************************************************************************)
(* build_mesh_xy called with any mesh size, and make_animation called on   *)
(* the mesh it returns.                                                    *)
(***************************************************************************)
MaxMeshDim == 5

MeshSizes == 1..MaxMeshDim

\* the link ids of the largest mesh
MeshLinkIds == 0..(4 * MaxMeshDim * (MaxMeshDim - 1) - 1)

\* what parse_log returns for a log of one flit injected and started on a link
MeshSnapshots ==
    {TrackFrom(<<>>, EmptyDict,
               <<EvtData(Msg(0, "RI", 1, 0, 1, 0)), EvtData(Msg(0, "ST", 1, 0, 0, l))>>) :
        l \in MeshLinkIds}

InitMesh ==
    /\ file = [exists |-> FALSE, data |-> <<>>]
    /\ pc = "mesh"
    /\ pos = 0
    /\ events = <<>>
    /\ idx = 0
    /\ flit_locations = <<>>
    /\ tick_states = EmptyDict
    /\ snapshots \in MeshSnapshots
    /\ fig = NoFig
    /\ ui = <<>>
    /\ mesh_dim \in MeshSizes
    /\ mesh = NoMesh
    /\ cache = EmptyDict
    /\ session_state = EmptyDict
    /\ clicks = 0
    /\ invocations = 0

\* lines 180-226: one call
CallBuildMesh ==
    /\ pc = "mesh"
    /\ mesh' = build_mesh_xy(mesh_dim)
    /\ pc' = "anim"
    /\ UNCHANGED <<file, pos, events, idx, flit_locations, tick_states, snapshots, fig, ui>>
    /\ UNCHANGED <<mesh_dim, cache, session_state, clicks, invocations>>

NextMesh ==
    \/ CallBuildMesh
    \/ CallMakeAnimation

SpecMesh == InitMesh /\ [][NextMesh]_vars

(***************************************************************************)
(* The page run again and again in one server process: the script is run   *)
(* anew on every interaction, the cache of parse_log lives across the      *)
(* runs, and the simulator may write another log between two runs.         *)
(***************************************************************************)
CacheLogs ==
    {<<>>,
     <<Msg(0, "RI", 1, 0, 1, 0), Msg(0, "RR", 1, 0, 0, 0)>>,
     <<Msg(0, "RI", 1, 0, 1, 0), Msg(1, "ST", 1, 0, 0, 1)>>}

CacheData ==
    {Concat([i \in DOMAIN s |-> Frame(Serialize(s[i]))]) : s \in CacheLogs}
    \cup {Frame(Serialize(Msg(0, "RI", 1, 0, 1, 0))) \o Frame(CorruptPayload)
              \o Frame(Serialize(Msg(0, "RR", 1, 0, 0, 1))),
          Frame(Serialize(Msg(0, "RI", 1, 0, 1, 0))) \o Frame(Serialize(Msg(0, "ST", 1, 0, 0, 0)))
              \o PackLE(PayloadLen) \o <<0, 1, 1>>,
          Frame(Serialize(Msg(0, "RI", 1, 0, 1, 0))) \o <<8>>}

CacheFiles ==
    {[exists |-> TRUE, data |-> d] : d \in CacheData} \cup {[exists |-> FALSE, data |-> <<>>]}

InitCache ==
    /\ file \in CacheFiles
    /\ pc = "main"
    /\ pos = 0
    /\ events = <<>>
    /\ idx = 0
    /\ flit_locations = <<>>
    /\ tick_states = EmptyDict
    /\ snapshots = EmptyDict
    /\ fig = NoFig
    /\ ui = <<>>
    /\ mesh_dim = MESH_DIMENSION
    /\ mesh = NoMesh
    /\ cache = EmptyDict
    /\ session_state = EmptyDict
    /\ clicks = 0
    /\ invocations = 0

\* lines 15 and 434: parse_log was called with this argument before; the
\* stored value is returned and the stored st.* calls are replayed
MainCacheHit ==
    /\ pc = "main"
    /\ file.exists
    /\ LOG_FILE_PATH \in DOMAIN cache
    /\ snapshots' = cache[LOG_FILE_PATH].value
    /\ ui' = Append(ui, "success: Log file found") \o cache[LOG_FILE_PATH].replay
    /\ pc' = "check"
    /\ UNCHANGED <<file, pos, events, idx, flit_locations, tick_states, fig>>
    /\ UNCHANGED <<mesh_dim, mesh, cache, session_state, clicks, invocations>>

\* lines 451-452: the script is run from the top, with new locals
Rerun ==
    /\ pc = "done"
    /\ pc' = "main"
    /\ pos' = 0
    /\ events' = <<>>
    /\ idx' = 0
    /\ flit_locations' = <<>>
    /\ tick_states' = EmptyDict
    /\ snapshots' = EmptyDict
    /\ fig' = NoFig
    /\ ui' = <<>>
    /\ mesh' = NoMesh
    /\ UNCHANGED <<file, mesh_dim, cache, session_state, clicks, invocations>>

\* between two runs the simulator writes another log to the same path, or
\* the log is removed
WriteLog ==
    /\ pc = "done"
    /\ file' \in CacheFiles \ {file}
    /\ UNCHANGED <<pc, pos, events, idx, flit_locations, tick_states, snapshots, fig, ui>>
    /\ UNCHANGED <<mesh_dim, mesh, cache, session_state, clicks, invocations>>

NextCache ==
    \/ Next
    \/ MainCacheHit
    \/ Rerun
    \/ WriteLog

SpecCache == InitCache /\ [][NextCache]_vars

(***************************************************************************)
(* utils/config_manager.py and pages/Run.py: the configuration widgets of  *)
(* the run page and their on_change callbacks.  session_state holds the    *)
(* widget keys num_cpus, num_dirs, mesh_rows, network and the dict config. *)
(***************************************************************************)
MaxCpus == 17

MaxMeshRowsInput == 3

Networks == {"simple", "garnet"}

\* int(new_cpu_val ** 0.5)
IntSqrt(v) == CHOOSE r \in 0..v : r * r <= v /\ v < (r + 1) * (r + 1)

\* config_manager.py lines 117-121: the while loop, from new_mesh_rows = m
RECURSIVE MeshRowsLoop(_, _)
MeshRowsLoop(new_cpu_val, m) ==
    IF new_cpu_val % m # 0
    THEN IF m - 1 = 0 THEN 1 ELSE MeshRowsLoop(new_cpu_val, m - 1)
    ELSE m

\* the square root is taken as it is
NewMeshRowsSqrt(new_cpu_val) == IntSqrt(new_cpu_val)

\* lines 116-121
NewMeshRows(new_cpu_val) == MeshRowsLoop(new_cpu_val, IntSqrt(new_cpu_val))

\* ConfigManager.DEFAULTS and __init__, lines 8-50 and 86-88, and the widget
\* keys after the first rendering
InitConfig ==
    /\ session_state =
          [num_cpus |-> 16, num_dirs |-> 16, mesh_rows |-> 1, network |-> "simple",
           config |-> [num_cpus |-> 16, num_dirs |-> 16, mesh_rows |-> 1,
                       network |-> "simple", topology |-> "Crossbar"]]
    /\ pc = "render"
    /\ file = [exists |-> FALSE, data |-> <<>>]
    /\ pos = 0
    /\ events = <<>>
    /\ idx = 0
    /\ flit_locations = <<>>
    /\ tick_states = EmptyDict
    /\ snapshots = EmptyDict
    /\ fig = NoFig
    /\ ui = <<>>
    /\ mesh_dim = MESH_DIMENSION
    /\ mesh = NoMesh
    /\ cache = EmptyDict
    /\ clicks = 0
    /\ invocations = 0

\* what no callback of the run page touches
ConfigFrame ==
    UNCHANGED <<file, pos, events, idx, flit_locations, tick_states, snapshots, fig, ui,
                mesh_dim, mesh, cache, clicks, invocations>>

\* config_manager.py lines 109-123, after the number input (min_value = 1)
\* has stored a new value under its key
handle_cpu_change ==
    \E new_cpu_val \in (1..MaxCpus) \ {session_state.num_cpus} :
        LET garnet == session_state.config.network = "garnet"
            rows == NewMeshRows(new_cpu_val)
        IN  /\ session_state' =
                  [session_state EXCEPT
                      !.num_cpus = new_cpu_val,
                      !.num_dirs = new_cpu_val,
                      !.mesh_rows = IF garnet THEN rows ELSE @,
                      !.config.num_cpus = new_cpu_val,
                      !.config.num_dirs = new_cpu_val,
                      !.config.mesh_rows = IF garnet THEN rows ELSE @]
            /\ pc' = "handle_cpu_change"
            /\ ConfigFrame

\* pages/Run.py lines 148-173: the callback of the older run page, which
\* writes to the config dict only
run_page_handle_cpu_change ==
    \E new_cpu_val \in (1..MaxCpus) \ {session_state.num_cpus} :
        LET garnet == session_state.config.network = "garnet"
            rows == NewMeshRows(new_cpu_val)
        IN  /\ session_state' =
                  [session_state EXCEPT
                      !.num_cpus = new_cpu_val,
                      !.config.num_cpus = new_cpu_val,
                      !.config.num_dirs = new_cpu_val,
                      !.config.mesh_rows = IF garnet THEN rows ELSE @]
            /\ pc' = "Run.handle_cpu_change"
            /\ ConfigFrame

\* config_manager.py lines 125-139, after the selectbox has stored a new value
update_network_and_topology ==
    \E new_network_val \in Networks \ {session_state.network} :
        /\ session_state' =
              [session_state EXCEPT
                  !.network = new_network_val,
                  !.config.network = new_network_val,
                  !.config.topology = IF new_network_val = "garnet" THEN "Mesh_XY" ELSE "Crossbar"]
        /\ pc' = "update_network_and_topology"
        /\ ConfigFrame

\* config_manager.py lines 100-102 for the mesh rows input (min_value = 1)
sync_widget_mesh_rows ==
    \E v \in (1..MaxMeshRowsInput) \ {session_state.mesh_rows} :
        /\ session_state' = [session_state EXCEPT !.mesh_rows = v, !.config.mesh_rows = v]
        /\ pc' = "sync_widget"
        /\ ConfigFrame

NextConfig ==
    \/ handle_cpu_change
    \/ run_page_handle_cpu_change
    \/ update_network_and_topology
    \/ sync_widget_mesh_rows

SpecConfig == InitConfig /\ [][NextConfig]_vars

(***************************************************************************)
(* pages/Run.py, lines 186-196 and 596-648: the execution protocol of the  *)
(* run page.  session_state holds run_triggered, is_running, the outputs   *)
(* and messages of the last run, and config with the path of the           *)
(* executable; pc is "idle" when the page is shown and waits for the user, *)
(* and "script" when a rerun of the script is due; ui holds the run button *)
(* as the page last rendered it.  A command is a sequence of characters.   *)
(***************************************************************************)
MaxClicks == 3

MaxPathLen == 2

\* the characters the user types into the path input of line 601
PathChars == {"g", " ", "'"}

Paths == UNION {[1..k -> PathChars] : k \in 1..MaxPathLen}

\* the executables that exist on the machine
Executables == {<<"g">>}

\* DEFAULTS['script_path'], line 65
script_path == <<"s">>

\* lines 201-245 with no argument off its default: the path of the
\* executable, the path of the script, and the joined (empty) arguments
generate_command_string(config) ==
    config.gem5_path \o <<" ">> \o script_path \o <<" ">>

\* shlex.split, line 619: whitespace separates the tokens, a quote opens a
\* literal stretch up to the next quote, and a quote left open raises
\* ValueError
RECURSIVE shlex_scan(_, _, _, _, _)
shlex_scan(s, i, tokens, cur, st) ==
    IF i > Len(s)
    THEN IF st = "quote"
         THEN [raised |-> TRUE, tokens |-> <<>>]
         ELSE [raised |-> FALSE,
               tokens |-> IF st = "in" THEN Append(tokens, cur) ELSE tokens]
    ELSE IF st = "quote"
         THEN IF s[i] = "'"
              THEN shlex_scan(s, i + 1, tokens, cur, "in")
              ELSE shlex_scan(s, i + 1, tokens, Append(cur, s[i]), "quote")
         ELSE IF s[i] = " "
              THEN shlex_scan(s, i + 1,
                              IF st = "in" THEN Append(tokens, cur) ELSE tokens,
                              <<>>, "out")
              ELSE IF s[i] = "'"
                   THEN shlex_scan(s, i + 1, tokens, cur, "quote")
                   ELSE shlex_scan(s, i + 1, tokens, Append(cur, s[i]), "in")

shlex_split(s) == shlex_scan(s, 1, <<>>, <<>>, "out")

\* lines 606-607: the run button as the script renders it
RunButton(ss) ==
    [label |-> IF ss.is_running THEN "Running..." ELSE "Run Command",
     disabled |-> ss.is_running]

\* what the run page does not touch
RunFrame ==
    UNCHANGED <<file, pos, events, idx, flit_locations, tick_states, snapshots, fig,
                mesh_dim, mesh, cache>>

\* lines 186-196 and the first rendering of the page
InitRun ==
    /\ session_state =
          [run_triggered |-> FALSE, is_running |-> FALSE,
           last_run_messages |-> <<>>,
           command_output |-> "None", command_error |-> "None",
           config |-> [gem5_path |-> <<"g">>]]
    /\ pc = "idle"
    /\ ui = <<[label |-> "Run Command", disabled |-> FALSE]>>
    /\ clicks = 0
    /\ invocations = 0
    /\ file = [exists |-> FALSE, data |-> <<>>]
    /\ pos = 0
    /\ events = <<>>
    /\ idx = 0
    /\ flit_locations = <<>>
    /\ tick_states = EmptyDict
    /\ snapshots = EmptyDict
    /\ fig = NoFig
    /\ mesh_dim = MESH_DIMENSION
    /\ mesh = NoMesh
    /\ cache = EmptyDict

\* lines 136-139 for the text input of line 601: the new path is stored in
\* the config, and the script is run again
sync_widget_gem5_path ==
    /\ pc = "idle"
    /\ \E p \in Paths \ {session_state.config.gem5_path} :
          session_state' = [session_state EXCEPT !.config.gem5_path = p]
    /\ pc' = "script"
    /\ UNCHANGED <<ui, clicks, invocations>>
    /\ RunFrame

\* lines 606-609: a click of the button the page shows reruns the script.
\* The button of that run answers True only when it is the widget that was
\* clicked, that is when it has the same label; then run_triggered is set
\* and st.rerun() restarts the script.  Otherwise the script runs to its
\* end as in RenderRun.
ClickRunButton ==
    /\ pc = "idle"
    /\ ~ui[1].disabled
    /\ clicks < MaxClicks
    /\ clicks' = clicks + 1
    /\ ui' = <<RunButton(session_state)>>
    /\ IF RunButton(session_state).label = ui[1].label
       THEN /\ session_state' = [session_state EXCEPT !.run_triggered = TRUE]
            /\ pc' = "script"
       ELSE /\ UNCHANGED session_state
            /\ pc' = "idle"
    /\ UNCHANGED invocations
    /\ RunFrame

\* a run of the script with run_triggered False: the button is rendered
\* (lines 606-607), the execution block is skipped (line 612)
RenderRun ==
    /\ pc = "script"
    /\ ~session_state.run_triggered
    /\ ui' = <<RunButton(session_state)>>
    /\ pc' = "idle"
    /\ UNCHANGED <<session_state, clicks, invocations>>
    /\ RunFrame

\* lines 612-617: the head of the execution block
Triggered(ss) ==
    [ss EXCEPT !.run_triggered = FALSE, !.last_run_messages = <<>>,
               !.is_running = TRUE,
               !.command_output = "None", !.command_error = "None"]

\* lines 646-648: the finally clause
Finally(ss) == [ss EXCEPT !.is_running = FALSE]

\* lines 612-619: shlex.split raises ValueError ahead of the try statement,
\* and the run of the script ends with the exception shown
ExecuteSplitRaises ==
    /\ pc = "script"
    /\ session_state.run_triggered
    /\ shlex_split(generate_command_string(session_state.config)).raised
    /\ ui' = <<RunButton(session_state)>>
    /\ session_state' = Triggered(session_state)
    /\ pc' = "idle"
    /\ UNCHANGED <<clicks, invocations>>
    /\ RunFrame

\* the guard of the four outcomes of the try statement: the command was
\* split, and subprocess.run is called with it (line 622)
Invoke ==
    /\ pc = "script"
    /\ session_state.run_triggered
    /\ ~shlex_split(generate_command_string(session_state.config)).raised
    /\ ui' = <<RunButton(session_state)>>
    /\ invocations' = invocations + 1
    /\ pc' = "script"
    /\ UNCHANGED clicks
    /\ RunFrame

command_list == shlex_split(generate_command_string(session_state.config)).tokens

\* lines 620-639, 646-648: return code 0, the statistics parsed or not
ExecuteSuccess ==
    /\ Invoke
    /\ command_list[1] \in Executables
    /\ \E parsed_stats \in BOOLEAN :
          session_state' =
              Finally([Triggered(session_state) EXCEPT
                          !.command_output = "stdout",
                          !.command_error = "stderr",
                          !.last_run_messages =
                              <<"success", IF parsed_stats THEN "info" ELSE "warning">>])

\* lines 620-628, 640-641, 646-648: another return code
ExecuteFailed ==
    /\ Invoke
    /\ command_list[1] \in Executables
    /\ session_state' =
          Finally([Triggered(session_state) EXCEPT
                      !.command_output = "stdout",
                      !.command_error = "stderr",
                      !.last_run_messages = <<"error: return code">>])

\* lines 620-623, 642-644, 646-648: FileNotFoundError
ExecuteNotFound ==
    /\ Invoke
    /\ command_list[1] \notin Executables
    /\ session_state' =
          Finally([Triggered(session_state) EXCEPT
                      !.command_error = "Could not find the executable",
                      !.last_run_messages = <<"error: not found">>])

\* lines 620-648: another exception, of subprocess.run (line 622) or of the
\* parsing and saving of the statistics (lines 631-638)
ExecuteException ==
    /\ Invoke
    /\ command_list[1] \in Executables
    /\ \E saving \in BOOLEAN :
          session_state' =
              Finally([Triggered(session_state) EXCEPT
                          !.command_output = IF saving THEN "stdout" ELSE @,
                          !.command_error = "str(e)",
                          !.last_run_messages =
                              IF saving THEN <<"success", "error: unexpected">>
                              ELSE <<"error: unexpected">>])

NextRun ==
    \/ sync_widget_gem5_path
    \/ ClickRunButton
    \/ RenderRun
    \/ ExecuteSplitRaises
    \/ ExecuteSuccess
    \/ ExecuteFailed
    \/ ExecuteNotFound
    \/ ExecuteException

SpecRun == InitRun /\ [][NextRun]_vars

(***************************************************************************)
(* Vocabulary of the properties.                                           *)
(***************************************************************************)
\* parse_log ran its tracking loop to the end and returned tick_states
Returned == pc \in {"check", "done"} /\ idx > 0

\* the (key, position) pairs of a dict of lists
Slots(d) == UNION {{<<k, i>> : i \in DOMAIN d[k]} : k \in DOMAIN d}

RouterListings(snap, g) ==
    {sl \in Slots(snap.routers) : snap.routers[sl[1]][sl[2]].global_id = g}

LinkListings(snap, g) ==
    {sl \in Slots(snap.links) : snap.links[sl[1]][sl[2]].global_id = g}

\* the places a snapshot reports flow g at
Places(snap, g) ==
    {<<"router", sl[1]>> : sl \in RouterListings(snap, g)}
    \cup {<<"link", sl[1]>> : sl \in LinkListings(snap, g)}

\* the flows a snapshot reports anywhere
FlowsIn(snap) ==
    {snap.routers[sl[1]][sl[2]].global_id : sl \in Slots(snap.routers)}
    \cup {snap.links[sl[1]][sl[2]].global_id : sl \in Slots(snap.links)}

EventFlows == {events[i].global_id : i \in DOMAIN events}

PlacingKinds == {"SI", "RR", "ST", "DT"}

LocationKinds == PlacingKinds \cup {"SE"}

\* the place an SI / RR / ST / DT event names
PlaceOf(evt) ==
    IF evt.event \in {"SI", "RR"} THEN <<"router", evt.location_id>>
    ELSE <<"link", evt.location_id>>

\* there is an Inject of g at or before tick t
Injected(g, t) ==
    \E i \in DOMAIN events :
        events[i].event = "RI" /\ events[i].global_id = g /\ events[i].tick <= t

\* an injected g has been ejected at or before tick t
Ejected(g, t) ==
    \E i, j \in DOMAIN events :
        /\ i < j
        /\ events[i].event = "RI" /\ events[i].global_id = g
        /\ events[j].event = "SE" /\ events[j].global_id = g /\ events[j].tick <= t

\* the last event of g, among the given kinds, at or before tick t in the
\* order the events are applied in; 0 if there is none
LastIdx(g, t, kinds) ==
    LET S == {i \in DOMAIN events :
                events[i].global_id = g /\ events[i].tick <= t /\ events[i].event \in kinds}
    IN  IF S = {} THEN 0 ELSE SetMax(S)

(***************************************************************************)
(* C1.  In every snapshot parse_log stores, each flow_id is listed at most *)
(* once over all router lists and link lists together: never at a router   *)
(* and on a link, never at two routers or on two links, never twice in one *)
(* list.                                                                   *)
(***************************************************************************)
C1_OnePlacePerFlit ==
    \A t \in DOMAIN tick_states :
        \A g \in FlowsIn(tick_states[t]) :
            Cardinality(RouterListings(tick_states[t], g))
                + Cardinality(LinkListings(tick_states[t], g)) <= 1

\* a flit that one snapshot shows at a router and another shows on a link
C1_Witness ==
    /\ Returned
    /\ \E t1, t2 \in DOMAIN snapshots : \E g \in EventFlows :
          /\ RouterListings(snapshots[t1], g) # {}
          /\ LinkListings(snapshots[t2], g) # {}

(***************************************************************************)
(* C2.  Conservation: the flows listed in the snapshot of tick t are among *)
(* those injected at or before t and not ejected at or before t; an        *)
(* ejected flit is listed in no later snapshot, whatever follows the Eject.*)
(* The code does not keep this: lines 115-139 place an ejected flit again. *)
(***************************************************************************)
C2_Conservation ==
    Returned =>
        \A t \in DOMAIN snapshots :
            FlowsIn(snapshots[t]) \subseteq
                {g \in EventFlows : Injected(g, t) /\ ~Ejected(g, t)}

(***************************************************************************)
(* C3.  The snapshot of tick t is the complete occupancy after every event *)
(* of tick <= t.  As claimed: a tracked flit whose most recent location    *)
(* event (SI, RR, ST, DT, SE) at or before t names a router or link is     *)
(* listed at exactly that place ("tracked": injected before that event).   *)
(* A later Inject of the same flow unsets the place (lines 105-112), so    *)
(* this fails.                                                             *)
(***************************************************************************)
C3_AsClaimed ==
    Returned =>
        \A t \in DOMAIN snapshots : \A g \in EventFlows :
            LET k == LastIdx(g, t, LocationKinds)
            IN  (/\ k > 0
                 /\ events[k].event \in PlacingKinds
                 /\ \E i \in 1..(k - 1) : events[i].event = "RI" /\ events[i].global_id = g)
                    => Places(snapshots[t], g) = {PlaceOf(events[k])}

\* the precondition of the amended C3 for flow g at tick t
C3_PlacedBy(g, t, k) ==
    /\ k = LastIdx(g, t, LocationKinds \cup {"RI"})
    /\ k > 0
    /\ events[k].event \in PlacingKinds
    /\ \E i \in 1..(k - 1) : events[i].event = "RI" /\ events[i].global_id = g

(***************************************************************************)
(* C3, amended.  A flit whose most recent event at or before t, Inject     *)
(* included, names a router or link, and which was injected before that    *)
(* event, is listed in snapshot t at exactly that place and nowhere else,  *)
(* also when no event of tick t mentions it.                               *)
(***************************************************************************)
C3_CompleteOccupancy ==
    Returned =>
        \A t \in DOMAIN snapshots : \A g \in EventFlows : \A k \in DOMAIN events :
            C3_PlacedBy(g, t, k) => Places(snapshots[t], g) = {PlaceOf(events[k])}

\* a placed flit that no event of tick t mentions
C3_Witness ==
    /\ Returned
    /\ \E t \in DOMAIN snapshots : \E g \in EventFlows : \E k \in DOMAIN events :
          /\ C3_PlacedBy(g, t, k)
          /\ \A i \in DOMAIN events : events[i].tick = t => events[i].global_id # g
          /\ Places(snapshots[t], g) = {PlaceOf(events[k])}

(***************************************************************************)
(* C4.  The keys of the mapping parse_log returns are exactly the ticks of *)
(* the decoded events: a tick with an event has a snapshot, also when its  *)
(* events are Injects or refer to untracked flows, and no other tick has.  *)
(***************************************************************************)
C4_KeysAreEventTicks ==
    Returned => DOMAIN snapshots = {events[i].tick : i \in DOMAIN events}

\* a tick whose events place nothing has an (empty) snapshot, and tick 0,
\* which has no event, has none
C4_Witness ==
    /\ Returned
    /\ 0 \notin DOMAIN snapshots
    /\ \E t \in DOMAIN snapshots :
          /\ FlowsIn(snapshots[t]) = {}
          /\ \A i \in DOMAIN events :
                events[i].tick = t =>
                    \/ events[i].event = "RI"
                    \/ ~Injected(events[i].global_id, t)

(***************************************************************************)
(* C5.  Events are applied in tick order, ties in wire order: the sort     *)
(* turns the decoded sequence into its events of the smallest tick in wire *)
(* order, then those of the next tick, and so on, and the mapping returned *)
(* is the replay of that sequence; of several events of one flow in one    *)
(* tick the last in the log decides the snapshot of the tick.              *)
(***************************************************************************)
\* the events of the ticks in T, by increasing tick, wire order within a tick
RECURSIVE ByTicks(_, _)
ByTicks(evs, T) ==
    IF T = {} THEN <<>>
    ELSE LET t == CHOOSE m \in T : \A x \in T : m <= x
             AtT(e) == e.tick = t
         IN  SelectSeq(evs, AtT) \o ByTicks(evs, T \ {t})

StableByTick(evs) == ByTicks(evs, {evs[i].tick : i \in DOMAIN evs})

RECURSIVE ReplayFrom(_, _, _)
ReplayFrom(fl, ts, evs) ==
    IF evs = <<>> THEN ts
    ELSE LET fl2 == ApplyToLocations(fl, Head(evs))
         IN  ReplayFrom(fl2, Store(ts, Head(evs).tick, Snapshot(fl2)), Tail(evs))

Replay(evs) == ReplayFrom(<<>>, EmptyDict, evs)

C5_TickOrderTiesInWireOrder ==
    /\ [][pc = "sort" => events' = StableByTick(events)]_vars
    /\ [](Returned => snapshots = Replay(events))

\* a log whose first record is not of the smallest tick, with two placing
\* events of one injected flow in one tick: the later one is the one shown
C5_Witness ==
    /\ Returned
    /\ events # <<>>
    /\ file.data[PrefixLen + 1] > events[1].tick
    /\ \E i, j \in DOMAIN events :
          /\ i < j
          /\ events[i].tick = events[j].tick
          /\ events[i].global_id = events[j].global_id
          /\ events[i].event \in PlacingKinds
          /\ PlaceOf(events[i]) # PlaceOf(events[j])
          /\ C3_PlacedBy(events[j].global_id, events[j].tick, j)
          /\ Places(snapshots[events[j].tick], events[j].global_id) = {PlaceOf(events[j])}

(***************************************************************************)
(* Vocabulary of the frames.                                               *)
(***************************************************************************)
\* the flits a frame lists at every router and on every link of the mesh
FrameOccupancy(frame) ==
    [routers |-> [r \in DOMAIN frame.routers |-> frame.routers[r].text],
     links |-> [lid \in DOMAIN frame.links |-> frame.links[lid].text]]

\* the flits a snapshot lists at every router and on every link of the mesh
MeshOccupancy(snap) ==
    [routers |-> [r \in DOMAIN Mesh.routers |-> Get(snap.routers, r)],
     links |-> [lid \in DOMAIN Mesh.links |-> Get(snap.links, lid)]]

FrameNames == {fig.frames[i].name : i \in DOMAIN fig.frames}

MaxSnapTick == SetMax(DOMAIN snapshots)

MinSnapTick == CHOOSE m \in DOMAIN snapshots : \A x \in DOMAIN snapshots : m <= x

(***************************************************************************)
(* C6.  Nearest-preceding sampling: a frame of sample point t shows the    *)
(* occupancy of the snapshot with the largest tick <= t, when there is one.*)
(***************************************************************************)
C6_NearestPreceding ==
    fig.built =>
        \A i \in DOMAIN fig.frames : \A tk \in DOMAIN snapshots :
            (/\ tk <= fig.frames[i].name
             /\ \A tk2 \in DOMAIN snapshots : tk2 <= fig.frames[i].name => tk2 <= tk)
                => FrameOccupancy(fig.frames[i]) = MeshOccupancy(snapshots[tk])

\* a frame between two snapshot ticks that shows the flits of the earlier one
C6_Witness ==
    /\ fig.built
    /\ \E i \in DOMAIN fig.frames : \E tk \in DOMAIN snapshots :
          /\ tk < fig.frames[i].name
          /\ fig.frames[i].name < MaxSnapTick
          /\ fig.frames[i].name \notin DOMAIN snapshots
          /\ \A tk2 \in DOMAIN snapshots : tk2 <= fig.frames[i].name => tk2 <= tk
          /\ FlowsIn(snapshots[tk]) # {}
          /\ FrameOccupancy(fig.frames[i]) = MeshOccupancy(snapshots[tk])

(***************************************************************************)
(* C7.  As claimed: one frame per sample point 0, interval, 2*interval, .. *)
(* up to maxTick, in increasing order, no other frame, and the snapshot of *)
(* maxTick is shown by some frame.  The last part fails when the interval  *)
(* does not divide maxTick.                                                *)
(***************************************************************************)
C7_SamplePoints ==
    /\ Len(fig.frames) = Cardinality(FrameNames)
    /\ FrameNames = {t \in 0..MaxSnapTick : t % fig.interval = 0}
    /\ \A i, j \in DOMAIN fig.frames : i < j => fig.frames[i].name < fig.frames[j].name

C7_AsClaimed ==
    fig.built => (C7_SamplePoints /\ \E t \in FrameNames : t >= MaxSnapTick)

(***************************************************************************)
(* C7, amended.  One frame per multiple of the interval in 0..maxTick, in  *)
(* increasing order, and no other frame; the snapshot of maxTick is shown  *)
(* by a frame exactly when the interval divides maxTick.                   *)
(***************************************************************************)
C7_OneFramePerSample ==
    fig.built =>
        /\ C7_SamplePoints
        /\ (\E t \in FrameNames : t >= MaxSnapTick) <=> (MaxSnapTick % fig.interval = 0)

\* several frames, the last one short of maxTick
C7_Witness ==
    /\ fig.built
    /\ Len(fig.frames) > 1
    /\ MaxSnapTick % fig.interval # 0
    /\ fig.frames[Len(fig.frames)].name < MaxSnapTick

(***************************************************************************)
(* C8.  A frame whose sample tick is before the first snapshot tick is     *)
(* empty: every router has no flit, the base size and the idle colour,     *)
(* every link has no flit, the minimum width and the idle colour.          *)
(***************************************************************************)
C8_EmptyBeforeFirstSnapshot ==
    fig.built =>
        \A i \in DOMAIN fig.frames :
            fig.frames[i].name < MinSnapTick =>
                /\ \A r \in DOMAIN Mesh.routers :
                      fig.frames[i].routers[r] =
                          [size |-> RouterBaseSize, color |-> "steelblue", text |-> <<>>]
                /\ \A lid \in DOMAIN Mesh.links :
                      fig.frames[i].links[lid] =
                          [width |-> LinkMinWidth, color |-> "lightgray", text |-> <<>>]

\* a frame before the first snapshot, whose first snapshot holds a flit
C8_Witness ==
    /\ fig.built
    /\ FlowsIn(snapshots[MinSnapTick]) # {}
    /\ \E i \in DOMAIN fig.frames : fig.frames[i].name < MinSnapTick

(***************************************************************************)
(* C9.  End to end: the log Inject(1, 0 -> 3)@0, RouterReceive(1, 0)@0,    *)
(* LinkStart(1, 5)@10, RouterReceive(1, 1)@20, Eject(1)@30 gives snapshots *)
(* at exactly the ticks 0, 10, 20, 30 with flow 1 at router 0, on link 5,  *)
(* at router 1 and nowhere, and at interval 10 exactly the four frames 0,  *)
(* 10, 20, 30 that show those snapshots.                                   *)
(***************************************************************************)
E2EFlit == [global_id |-> 1, src |-> 0, dest |-> 3, pack_id |-> 0, flit_id |-> 0]

E2ESnapshots ==
    [t \in {0, 10, 20, 30} |->
        CASE t = 0 -> [routers |-> [r \in {0} |-> <<E2EFlit>>], links |-> EmptyDict]
          [] t = 10 -> [routers |-> EmptyDict, links |-> [l \in {5} |-> <<E2EFlit>>]]
          [] t = 20 -> [routers |-> [r \in {1} |-> <<E2EFlit>>], links |-> EmptyDict]
          [] t = 30 -> [routers |-> EmptyDict, links |-> EmptyDict]]

C9_EndToEnd ==
    file.data = E2EFile =>
        /\ pc \in {"check", "done"} => snapshots = E2ESnapshots
        /\ (fig.built /\ fig.interval = 10) =>
              /\ [i \in DOMAIN fig.frames |-> fig.frames[i].name] = <<0, 10, 20, 30>>
              /\ \A i \in DOMAIN fig.frames :
                    FrameOccupancy(fig.frames[i])
                        = MeshOccupancy(E2ESnapshots[fig.frames[i].name])

C9_Witness ==
    /\ file.data = E2EFile
    /\ fig.built
    /\ fig.interval = 10
    /\ Len(fig.frames) = 4

(***************************************************************************)
(* C10.  A length prefix of fewer than 4 bytes ends the parse, and the     *)
(* mapping parse_log returns still holds the snapshots of the records      *)
(* decoded before it.  The code returns the empty dict instead (line 44).  *)
(***************************************************************************)
BadPrefixSeen ==
    \E i \in DOMAIN ui : ui[i] = "error: Error unpacking message length"

C10_PartialResultAfterBadPrefix ==
    (pc \in {"check", "done"} /\ BadPrefixSeen) =>
        \A i \in DOMAIN events : events[i].tick \in DOMAIN snapshots

(***************************************************************************)
(* Vocabulary of the framing: the stream as its writer sees it.            *)
(***************************************************************************)
\* the length a 4-byte prefix was packed from, among those the data can hold
PackedLens(data) ==
    {n \in 0..(Len(data) - PrefixLen) : PackLE(n) = SubSeq(data, 1, PrefixLen)}

\* the payloads of the complete records at the front of the stream
RECURSIVE WrittenRecords(_)
WrittenRecords(data) ==
    IF Len(data) < PrefixLen \/ PackedLens(data) = {} THEN <<>>
    ELSE LET n == CHOOSE k \in PackedLens(data) : TRUE
         IN  <<SubSeq(data, PrefixLen + 1, PrefixLen + n)>>
             \o WrittenRecords(SubSeq(data, PrefixLen + n + 1, Len(data)))

\* the bytes after the last complete record
RECURSIVE WrittenRest(_)
WrittenRest(data) ==
    IF Len(data) < PrefixLen \/ PackedLens(data) = {} THEN data
    ELSE LET n == CHOOSE k \in PackedLens(data) : TRUE
         IN  WrittenRest(SubSeq(data, PrefixLen + n + 1, Len(data)))

\* the events of the payloads that are messages, in order
RECURSIVE EventsOf(_)
EventsOf(payloads) ==
    IF payloads = <<>> THEN <<>>
    ELSE (IF ParseOk(Head(payloads)) THEN <<EvtData(ParseFromString(Head(payloads)))>> ELSE <<>>)
         \o EventsOf(Tail(payloads))

\* the stream ends in a record with a complete prefix and too few payload bytes
TruncatedTail == Len(WrittenRest(file.data)) >= PrefixLen

(***************************************************************************)
(* C11.  Truncation tolerance: when the last record has a complete length  *)
(* prefix and fewer payload bytes than it declares, decoding stops there   *)
(* without failing, and the events and the returned mapping are those of   *)
(* the stream without that record.                                         *)
(***************************************************************************)
C11_TruncationTolerance ==
    (file.exists /\ TruncatedTail) =>
        /\ pc = "sort" => events = EventsOf(WrittenRecords(file.data))
        /\ pc \in {"check", "done"} =>
              /\ Returned
              /\ snapshots = Replay(StableByTick(EventsOf(WrittenRecords(file.data))))
        /\ \A i \in DOMAIN ui : ui[i] # "error: Error unpacking message length"

\* a record cut inside its payload, after records that gave snapshots
C11_Witness ==
    /\ file.exists
    /\ Len(WrittenRest(file.data)) > PrefixLen
    /\ Returned
    /\ DOMAIN snapshots # {}
    /\ Len(events) = Len(WrittenRecords(file.data))

(***************************************************************************)
(* C12.  An unparsable payload under a valid length prefix is skipped as   *)
(* one record and decoding goes on with the next record: at the end of     *)
(* the decode loop the events are those of the stream with the corrupt     *)
(* records removed, wherever they stand, with one warning per skipped      *)
(* record.                                                                 *)
(***************************************************************************)
CorruptRecords(data) ==
    {i \in DOMAIN WrittenRecords(data) : ~ParseOk(WrittenRecords(data)[i])}

\* the stream rebuilt from its records, the corrupt ones left out
WithoutCorrupt(data) ==
    Concat([i \in DOMAIN SelectSeq(WrittenRecords(data), ParseOk) |->
               Frame(SelectSeq(WrittenRecords(data), ParseOk)[i])])
    \o WrittenRest(data)

ParseWarnings ==
    {i \in DOMAIN ui : ui[i] = "warning: Error parsing protobuf message"}

C12_CorruptRecordSkipped ==
    (file.exists /\ pc = "sort") =>
        /\ events = EventsOf(WrittenRecords(file.data))
        /\ events = EventsOf(WrittenRecords(WithoutCorrupt(file.data)))
        /\ Cardinality(ParseWarnings) = Cardinality(CorruptRecords(file.data))

\* a corrupt record between two good ones, and both good ones decoded
C12_Witness ==
    /\ file.exists
    /\ pc = "sort"
    /\ \E i \in CorruptRecords(file.data) :
          /\ 1 < i
          /\ i < Len(WrittenRecords(file.data))
          /\ ParseOk(WrittenRecords(file.data)[i - 1])
          /\ ParseOk(WrittenRecords(file.data)[i + 1])
    /\ Len(events) = 2

(***************************************************************************)
(* C13.  Framing round trip: when the file is a sequence of messages, each *)
(* written as a 4-byte little-endian length and its payload, the decode    *)
(* loop ends at the end of the file without a warning or an error, and     *)
(* the events are those of the messages, one per record, in the order of   *)
(* the records.                                                            *)
(***************************************************************************)
\* what the writer does with a sequence of messages
Encode(msgs) == Concat([i \in DOMAIN msgs |-> Frame(Serialize(msgs[i]))])

\* the messages of the records of a stream
WrittenMsgs(data) ==
    [i \in DOMAIN WrittenRecords(data) |-> ParseFromString(WrittenRecords(data)[i])]

IsEncoding(data) ==
    LET recs == WrittenRecords(data)
    IN  /\ \A i \in DOMAIN recs : ParseOk(recs[i])
        /\ Encode([i \in DOMAIN recs |-> ParseFromString(recs[i])]) = data

C13_FramingRoundTrip ==
    (file.exists /\ IsEncoding(file.data)) =>
        LET msgs == WrittenMsgs(file.data)
        IN  /\ pc = "sort" =>
                  /\ Len(events) = Len(msgs)
                  /\ \A i \in DOMAIN events : events[i] = EvtData(msgs[i])
                  /\ pos = Len(file.data)
                  /\ ui = <<"success: Log file found">>
            /\ pc \in {"check", "done"} => Returned
            /\ pc = "read" =>
                  /\ Len(events) <= Len(msgs)
                  /\ pos = Len(Encode(SubSeq(msgs, 1, Len(events))))

\* three different messages decoded into three different events
C13_Witness ==
    /\ file.exists
    /\ IsEncoding(file.data)
    /\ pc = "sort"
    /\ Len(events) = MaxEvents
    /\ events[1] # events[2]
    /\ events[2] # events[3]
    /\ events[1] # events[3]

(***************************************************************************)
(* C14.  A location event (SI, RR, ST, DT, SE) of a flow with no Inject    *)
(* before it in the sorted order is ignored: the flit table is left as it  *)
(* was (the flow is not added, no other flit moves), the loop goes on, and *)
(* no snapshot lists a flow before an Inject of it was applied.            *)
(***************************************************************************)
\* the event at index i is a location event of a flow not injected before it
Untracked(i) ==
    /\ events[i].event \in LocationKinds
    /\ \A j \in 1..(i - 1) :
          ~(events[j].event = "RI" /\ events[j].global_id = events[i].global_id)

C14_UntrackedStep ==
    (pc = "track" /\ idx <= Len(events) /\ Untracked(idx)) =>
        /\ flit_locations' = flit_locations
        /\ events[idx].global_id \notin Keys(flit_locations')
        /\ pc' = "track"
        /\ idx' = idx + 1
        /\ ui' = ui

C14_SnapshotsListInjected ==
    \A t \in DOMAIN tick_states :
        \A g \in FlowsIn(tick_states[t]) :
            \E j \in 1..(idx - 1) :
                events[j].event = "RI" /\ events[j].global_id = g /\ events[j].tick <= t

C14_UntrackedIgnored ==
    /\ [][C14_UntrackedStep]_vars
    /\ [](C14_SnapshotsListInjected)
    /\ []((Returned /\ \E i \in DOMAIN events : Untracked(i)) =>
             \A i \in DOMAIN ui : ui[i] # "error: Error unpacking message length")

\* an untracked receive applied while another flit is placed: the snapshot
\* of its tick lists the other flit only
C14_Witness ==
    /\ Returned
    /\ \E i \in DOMAIN events :
          /\ Untracked(i)
          /\ events[i].event = "RR"
          /\ events[i].tick \in DOMAIN snapshots
          /\ FlowsIn(snapshots[events[i].tick]) # {}
          /\ events[i].global_id \notin FlowsIn(snapshots[events[i].tick])
          /\ events[i].global_id \notin Keys(flit_locations)

(***************************************************************************)
(* C15.  Every dropped untracked reference is recorded in a counter: when  *)
(* parse_log has returned, the recorded count is the number of location    *)
(* events that referred to a flow with no Inject before them.              *)
(***************************************************************************)
UntrackedEvents == {i \in DOMAIN events : Untracked(i)}

C15_UntrackedCounted ==
    Returned => untracked_count = Cardinality(UntrackedEvents)

(***************************************************************************)
(* C16.  An Inject leaves the location of the flit unset: the Inject step  *)
(* records the flit with its src and dest and no location, and the flit is *)
(* in no router or link list of the snapshot of any tick at which no SI,   *)
(* RR, ST or DT of it has been applied after its Inject; no error is       *)
(* reported for it.                                                        *)
(***************************************************************************)
\* at tick t flow g is injected and no placing event was applied after that
InjectedNotPlaced(g, t) ==
    /\ LastIdx(g, t, {"RI"}) > 0
    /\ LastIdx(g, t, PlacingKinds) < LastIdx(g, t, {"RI"})

C16_InjectStep ==
    (pc = "track" /\ idx <= Len(events) /\ events[idx].event = "RI") =>
        LET g == events[idx].global_id
        IN  /\ g \in Keys(flit_locations')
            /\ flit_locations'[KeyIndex(flit_locations', g)].src = events[idx].src
            /\ flit_locations'[KeyIndex(flit_locations', g)].dest = events[idx].dest
            /\ flit_locations'[KeyIndex(flit_locations', g)].location_type = NoneType
            /\ flit_locations'[KeyIndex(flit_locations', g)].location_id = None
            /\ g \notin FlowsIn(Snapshot(flit_locations'))
            /\ ui' = ui

C16_AbsentUntilPlaced ==
    Returned =>
        \A t \in DOMAIN snapshots :
            \A g \in EventFlows :
                InjectedNotPlaced(g, t) =>
                    /\ g \notin FlowsIn(snapshots[t])
                    /\ g \in Keys(flit_locations)

C16_InjectLeavesLocationUnset ==
    /\ [][C16_InjectStep]_vars
    /\ [](C16_AbsentUntilPlaced)

\* a flit injected at one tick and first placed at a later one: absent
\* from the snapshot of the first tick, listed in that of the second
C16_Witness ==
    /\ Returned
    /\ \E g \in EventFlows :
          \E t1, t2 \in DOMAIN snapshots :
              /\ t1 < t2
              /\ InjectedNotPlaced(g, t1)
              /\ ~InjectedNotPlaced(g, t2)
              /\ g \notin FlowsIn(snapshots[t1])
              /\ g \in FlowsIn(snapshots[t2])

(***************************************************************************)
(* C17.  The src and dest of a tracked flit.  As claimed: in every         *)
(* snapshot that lists a flow, its src and dest are those of its first     *)
(* Inject.  What holds: they are those of the last Inject of the flow      *)
(* applied at or before the tick of the snapshot (an Inject of a known     *)
(* flow overwrites its record), and no event other than an Inject changes  *)
(* the src or dest of any record.                                          *)
(***************************************************************************)
\* the summaries a snapshot holds of flow g
Summaries(snap, g) ==
    {snap.routers[sl[1]][sl[2]] : sl \in RouterListings(snap, g)}
    \cup {snap.links[sl[1]][sl[2]] : sl \in LinkListings(snap, g)}

\* the first Inject of g in the order the events are applied in; 0 if none
FirstInject(g) ==
    LET S == {i \in DOMAIN events : events[i].global_id = g /\ events[i].event = "RI"}
    IN  IF S = {} THEN 0 ELSE CHOOSE i \in S : \A j \in S : i <= j

C17_AsClaimed ==
    Returned =>
        \A t \in DOMAIN snapshots :
            \A g \in FlowsIn(snapshots[t]) :
                \A info \in Summaries(snapshots[t], g) :
                    /\ FirstInject(g) > 0
                    /\ info.src = events[FirstInject(g)].src
                    /\ info.dest = events[FirstInject(g)].dest

C17_SrcDestOfLastInject ==
    Returned =>
        \A t \in DOMAIN snapshots :
            \A g \in FlowsIn(snapshots[t]) :
                \A info \in Summaries(snapshots[t], g) :
                    /\ LastIdx(g, t, {"RI"}) > 0
                    /\ info.src = events[LastIdx(g, t, {"RI"})].src
                    /\ info.dest = events[LastIdx(g, t, {"RI"})].dest

C17_OnlyInjectWrites ==
    (pc = "track" /\ idx <= Len(events) /\ events[idx].event # "RI") =>
        /\ Len(flit_locations') = Len(flit_locations)
        /\ \A i \in DOMAIN flit_locations :
              /\ flit_locations'[i].global_id = flit_locations[i].global_id
              /\ flit_locations'[i].src = flit_locations[i].src
              /\ flit_locations'[i].dest = flit_locations[i].dest

C17_SrcDestFromInject ==
    /\ [](C17_SrcDestOfLastInject)
    /\ [][C17_OnlyInjectWrites]_vars

\* a flow injected twice with other endpoints and listed with the second ones
C17_Witness ==
    /\ Returned
    /\ \E t \in DOMAIN snapshots :
          \E g \in FlowsIn(snapshots[t]) :
              /\ FirstInject(g) # LastIdx(g, t, {"RI"})
              /\ events[FirstInject(g)].src # events[LastIdx(g, t, {"RI"})].src
              /\ \A info \in Summaries(snapshots[t], g) :
                    info.src = events[LastIdx(g, t, {"RI"})].src

(***************************************************************************)
(* C18.  Location update per kind, for a flow that is in the flit table:   *)
(* SI and RR set its location to router(id), ST and DT to link(id), with   *)
(* id the link_id field of the wire message, SE sets it to ejected with no *)
(* id; the event changes nothing else in the record and no other record.   *)
(***************************************************************************)
\* the location an event of a kind gives
KindLocation(evt) ==
    CASE evt.event \in {"SI", "RR"} -> <<"router", evt.location_id>>
      [] evt.event \in {"ST", "DT"} -> <<"link", evt.location_id>>
      [] evt.event = "SE" -> <<"ejected", None>>

C18_TrackedStep ==
    (/\ pc = "track"
     /\ idx <= Len(events)
     /\ events[idx].event \in LocationKinds
     /\ events[idx].global_id \in Keys(flit_locations)) =>
        LET k == KeyIndex(flit_locations, events[idx].global_id)
        IN  /\ Len(flit_locations') = Len(flit_locations)
            /\ flit_locations'[k].location_type = KindLocation(events[idx])[1]
            /\ flit_locations'[k].location_id = KindLocation(events[idx])[2]
            /\ flit_locations'[k] =
                  [flit_locations[k] EXCEPT !.location_type = KindLocation(events[idx])[1],
                                            !.location_id = KindLocation(events[idx])[2]]
            /\ \A i \in DOMAIN flit_locations : i # k => flit_locations'[i] = flit_locations[i]

\* the id of a decoded event is the link_id field of its record
C18_IdFromLinkId ==
    (pc = "read" /\ Len(events') = Len(events) + 1) =>
        LET pb == ParseFromString(SubSeq(file.data, pos + PrefixLen + 1, pos'))
            evt == events'[Len(events')]
        IN  /\ evt.event = pb.status
            /\ evt.global_id = pb.global_id
            /\ evt.location_id = IF pb.status \in PlacingKinds THEN pb.link_id ELSE None

C18_LocationPerKind ==
    /\ [][C18_TrackedStep]_vars
    /\ [][C18_IdFromLinkId]_vars

\* a link start on link 1 just applied to one of two tracked flits
C18_Witness ==
    /\ pc = "track"
    /\ idx = MaxEvents + 1
    /\ Len(events) = MaxEvents
    /\ events[MaxEvents].event = "ST"
    /\ events[MaxEvents].location_id = 1
    /\ Len(flit_locations) = 2
    /\ events[MaxEvents].global_id \in Keys(flit_locations)
    /\ flit_locations[KeyIndex(flit_locations, events[MaxEvents].global_id)].location_type = "link"
    /\ flit_locations[KeyIndex(flit_locations, events[MaxEvents].global_id)].location_id = 1

(***************************************************************************)
(* C19.  Snapshots are copies: a snapshot stored for tick t is changed     *)
(* only by applying an event of tick t; applying events of other ticks,    *)
(* and everything after the tracking loop, leaves it as it was stored.     *)
(***************************************************************************)
C19_StoredStep ==
    \A t \in DOMAIN tick_states :
        /\ t \in DOMAIN tick_states'
        /\ tick_states'[t] # tick_states[t] =>
              (pc = "track" /\ idx <= Len(events) /\ events[idx].tick = t)

C19_SnapshotsAreCopies == [][C19_StoredStep]_vars

\* the flit listed at a router by the snapshot of one tick was moved by an
\* event of a later tick, and the first snapshot still lists it there
C19_Witness ==
    /\ Returned
    /\ \E t1, t2 \in DOMAIN snapshots :
          /\ t1 < t2
          /\ \E g \in FlowsIn(snapshots[t1]) :
                /\ g \in FlowsIn(snapshots[t2])
                /\ Places(snapshots[t1], g) # Places(snapshots[t2], g)
                /\ \E r \in Locs : Places(snapshots[t1], g) = {<<"router", r>>}

(***************************************************************************)
(* C20.  make_animation on an empty snapshot mapping fails with an error   *)
(* (it raises ValueError) and produces no figure and no frames, for every  *)
(* interval; on a mapping that is not empty it does not fail.              *)
(***************************************************************************)
C20_EmptyInputRaises ==
    pc = "animated" =>
        /\ DOMAIN snapshots = {} =>
              /\ fig.raised
              /\ ~fig.built
              /\ "frames" \notin DOMAIN fig
              /\ "data" \notin DOMAIN fig
        /\ DOMAIN snapshots # {} =>
              /\ ~fig.raised
              /\ fig.built
              /\ Len(fig.frames) >= 1

\* make_animation has been called on the empty mapping
C20_Witness ==
    /\ pc = "animated"
    /\ DOMAIN snapshots = {}
    /\ fig.raised

(***************************************************************************)
(* C21.  In main a missing log file is reported before any decoding:       *)
(* parse_log is not entered, the report is "Log file not found", which is  *)
(* not the report of an existing log without snapshots ("no data could be  *)
(* parsed"), and in both cases make_animation is not called.               *)
(***************************************************************************)
Reported(msg) == \E i \in DOMAIN ui : ui[i] = msg

NotFoundMsg == "error: Log file not found."

NoDataMsg == "error: Log file was found but no data could be parsed"

C21_MissingFileBeforeDecoding ==
    /\ ~file.exists =>
          /\ pc \in {"main", "done"}
          /\ pos = 0 /\ events = <<>> /\ idx = 0
          /\ tick_states = EmptyDict /\ snapshots = EmptyDict
          /\ fig = NoFig
          /\ pc = "done" => (Reported(NotFoundMsg) /\ ~Reported(NoDataMsg))
    /\ (file.exists /\ pc = "done" /\ DOMAIN snapshots = {}) =>
          /\ fig = NoFig
          /\ Reported(NoDataMsg)
          /\ ~Reported(NotFoundMsg)
          /\ ~Reported("info: Log file parsed")
    /\ (file.exists /\ pc = "done") => (DOMAIN snapshots = {} <=> fig = NoFig)

\* main has ended on the missing file
C21_Witness ==
    /\ ~file.exists
    /\ pc = "done"
    /\ ui[1] = NotFoundMsg
    /\ fig = NoFig

(***************************************************************************)
(* C22.  build_mesh_xy(n) returns n*n routers, router r at (r \div n,      *)
(* r % n), the coordinates being the n x n grid, and 4*n*(n-1) links with  *)
(* ids 0 .. 4n(n-1)-1, n*(n-1) in each of the four directions (16 routers, *)
(* 48 links, 12 a direction for n = 4); every link joins two different     *)
(* routers one step apart along one axis.                                  *)
(***************************************************************************)
MeshBuilt == pc \in {"anim", "animated"}

Abs(x) == IF x < 0 THEN -x ELSE x

\* the step a link takes on the grid
LinkStep(lid) ==
    LET a == mesh.routers[mesh.links[lid][1]]
        b == mesh.routers[mesh.links[lid][2]]
    IN  <<b[1] - a[1], b[2] - a[2]>>

Directions == {<<0, 1>>, <<0, -1>>, <<1, 0>>, <<-1, 0>>}

C22_MeshShape ==
    MeshBuilt =>
        /\ DOMAIN mesh.routers = 0..(mesh_dim * mesh_dim - 1)
        /\ \A r \in DOMAIN mesh.routers : mesh.routers[r] = <<r \div mesh_dim, r % mesh_dim>>
        /\ {mesh.routers[r] : r \in DOMAIN mesh.routers}
              = (0..(mesh_dim - 1)) \X (0..(mesh_dim - 1))
        /\ DOMAIN mesh.links = 0..(4 * mesh_dim * (mesh_dim - 1) - 1)
        /\ \A lid \in DOMAIN mesh.links :
              /\ mesh.links[lid][1] \in DOMAIN mesh.routers
              /\ mesh.links[lid][2] \in DOMAIN mesh.routers
              /\ mesh.links[lid][1] # mesh.links[lid][2]
              /\ Abs(LinkStep(lid)[1]) + Abs(LinkStep(lid)[2]) = 1
        /\ \A d \in Directions :
              Cardinality({lid \in DOMAIN mesh.links : LinkStep(lid) = d})
                  = mesh_dim * (mesh_dim - 1)
        /\ mesh_dim = 4 =>
              /\ Cardinality(DOMAIN mesh.routers) = 16
              /\ Cardinality(DOMAIN mesh.links) = 48
              /\ \A d \in Directions :
                    Cardinality({lid \in DOMAIN mesh.links : LinkStep(lid) = d}) = 12

\* the mesh of size 4 has been built
C22_Witness ==
    /\ pc = "anim"
    /\ mesh_dim = 4
    /\ Cardinality(DOMAIN mesh.links) = 48
    /\ Cardinality(DOMAIN mesh.routers) = 16

(***************************************************************************)
(* Vocabulary of the visual attributes.                                    *)
(***************************************************************************)
\* the snapshot a frame is to show: the one of the largest tick <= its
\* sample point, the empty one if there is none
FrameSnap(i) ==
    LET T == {tk \in DOMAIN snapshots : tk <= fig.frames[i].name}
    IN  IF T = {} THEN EmptySnap ELSE snapshots[SetMax(T)]

\* the number of flits a snapshot part lists under a key, 0 if it has none
Count(d, k) == IF k \in DOMAIN d THEN Len(d[k]) ELSE 0

\* the link id make_animation looks at besides lid
SiblingOf(lid) ==
    IF mesh.links[lid][1] > mesh.links[lid][2] THEN lid - SiblingOffset ELSE lid + SiblingOffset

(***************************************************************************)
(* C23.  Highlight of a link in a frame.  As claimed: the link is          *)
(* highlighted iff at least one flit is on it in the snapshot of the frame.*)
(* What holds: it is highlighted iff a flit is on it or on the link whose  *)
(* id is lid + 12 (for a < b) or lid - 12 (for a > b).                     *)
(***************************************************************************)
C23_AsClaimed ==
    fig.built =>
        \A i \in DOMAIN fig.frames : \A lid \in DOMAIN mesh.links :
            fig.frames[i].links[lid].color = "red" <=> Count(FrameSnap(i).links, lid) > 0

C23_HighlightOwnOrSibling ==
    fig.built =>
        \A i \in DOMAIN fig.frames : \A lid \in DOMAIN mesh.links :
            /\ fig.frames[i].links[lid].color \in {"red", "lightgray"}
            /\ fig.frames[i].links[lid].color = "red" <=>
                  \/ Count(FrameSnap(i).links, lid) > 0
                  \/ Count(FrameSnap(i).links, SiblingOf(lid)) > 0

\* a frame in which link 12 carries no flit and is highlighted for the flit
\* on link 0
C23_Witness ==
    /\ fig.built
    /\ \E i \in DOMAIN fig.frames :
          /\ Count(FrameSnap(i).links, 0) > 0
          /\ Count(FrameSnap(i).links, SiblingOffset) = 0
          /\ fig.frames[i].links[SiblingOffset].color = "red"
          /\ fig.frames[i].links[0].color = "red"
          /\ fig.frames[i].links[1].color = "lightgray"

(***************************************************************************)
(* C24.  In every frame a router with c flits has size 10 + 5*c and is     *)
(* highlighted (green) iff c > 0, and a link with c flits has width        *)
(* max(2, 2*c); c is counted in the snapshot of the largest tick <= the    *)
(* sample point of the frame, and is 0 for a router or link the snapshot   *)
(* does not list (and for every one when there is no such snapshot).       *)
(***************************************************************************)
C24_SizesAndWidths ==
    fig.built =>
        \A i \in DOMAIN fig.frames :
            /\ \A r \in DOMAIN mesh.routers :
                  /\ fig.frames[i].routers[r].size = 10 + 5 * Count(FrameSnap(i).routers, r)
                  /\ fig.frames[i].routers[r].color = "green" <=> Count(FrameSnap(i).routers, r) > 0
            /\ \A lid \in DOMAIN mesh.links :
                  fig.frames[i].links[lid].width = Max(2, 2 * Count(FrameSnap(i).links, lid))

\* a frame with two flits at router 0, whose links carry none, after a
\* frame with one flit at router 0
C24_Witness ==
    /\ fig.built
    /\ \E i, j \in DOMAIN fig.frames :
          /\ i < j
          /\ Count(FrameSnap(i).routers, 0) = 1
          /\ fig.frames[i].routers[0].size = 15
          /\ Count(FrameSnap(j).routers, 0) = 2
          /\ fig.frames[j].routers[0].size = 20
          /\ fig.frames[j].routers[0].color = "green"
          /\ fig.frames[j].routers[1].size = 10
          /\ fig.frames[j].routers[1].color = "steelblue"
          /\ fig.frames[j].links[0].width = 2

\* a frame with two flits on link 0
C24_WitnessLink ==
    /\ fig.built
    /\ \E i \in DOMAIN fig.frames :
          /\ Count(FrameSnap(i).links, 0) = 2
          /\ fig.frames[i].links[0].width = 4

(***************************************************************************)
(* C25.  The mapping is computed once per loaded log and computed again    *)
(* when the log changes: whenever parse_log has returned to main, the      *)
(* mapping it returned is the mapping of the content the log file has at   *)
(* that call, never that of an earlier content.                            *)
(***************************************************************************)
\* what decoding and tracking a content gives ({} after a short prefix)
MappingOf(data) ==
    LET rest == WrittenRest(data)
    IN  IF 0 < Len(rest) /\ Len(rest) < PrefixLen THEN EmptyDict
        ELSE Replay(StableByTick(EventsOf(WrittenRecords(data))))

C25_MappingFollowsLog ==
    (file.exists /\ pc = "check") => snapshots = MappingOf(file.data)

\* on an unchanged log the stored mapping is returned and it is the right one
C25_ReuseOnUnchangedLog ==
    /\ file.exists
    /\ pc = "check"
    /\ idx = 0
    /\ DOMAIN snapshots # {}
    /\ snapshots = MappingOf(file.data)

(***************************************************************************)
(* C26.  A change of the CPU count: handle_cpu_change ends, sets num_dirs  *)
(* to num_cpus and, when the network is garnet, sets mesh_rows to the      *)
(* largest divisor of num_cpus that is not larger than floor(sqrt(         *)
(* num_cpus)), so that mesh_rows >= 1 and num_cpus % mesh_rows = 0; when   *)
(* the network is not garnet mesh_rows is left as it was.                  *)
(***************************************************************************)
Divisors(v) == {d \in 1..v : v % d = 0}

LargestDivisorUpToSqrt(v) ==
    SetMax({d \in Divisors(v) : d * d <= v})

C26_CpuChangeStep ==
    (session_state'.num_cpus # session_state.num_cpus) =>
        LET v == session_state'.num_cpus
        IN  /\ pc' \in {"handle_cpu_change", "Run.handle_cpu_change"}
            /\ v >= 1
            /\ session_state'.config.num_cpus = v
            /\ session_state'.config.num_dirs = v
            /\ session_state.config.network = "garnet" =>
                  /\ session_state'.config.mesh_rows >= 1
                  /\ v % session_state'.config.mesh_rows = 0
                  /\ session_state'.config.mesh_rows = LargestDivisorUpToSqrt(v)
            /\ session_state.config.network # "garnet" =>
                  /\ session_state'.config.mesh_rows = session_state.config.mesh_rows
                  /\ session_state'.mesh_rows = session_state.mesh_rows
            /\ session_state'.config.network = session_state.config.network
            /\ pc' = "handle_cpu_change" =>
                  /\ session_state'.num_dirs = v
                  /\ session_state.config.network = "garnet" =>
                        session_state'.mesh_rows = session_state'.config.mesh_rows

C26_MeshRowsFollowCpus == [][C26_CpuChangeStep]_vars

\* the CPU count was set to a number that is no square, on a garnet
\* network whose mesh_rows did not divide it before
C26_Witness ==
    /\ pc = "handle_cpu_change"
    /\ session_state.config.network = "garnet"
    /\ session_state.num_cpus = 10
    /\ session_state.config.mesh_rows = 2
    /\ session_state.mesh_rows = 2
    /\ session_state.num_dirs = 10

(***************************************************************************)
(* C27.  On the mesh of build_mesh_xy(4) the link make_animation looks at  *)
(* besides lid = (a, b), lid + 12 for a < b and lid - 12 for a > b, is     *)
(* always a link of the mesh and is the link (b, a), so a frame highlights *)
(* a link iff it or its reverse carries a flit.  For every other mesh size *)
(* n the link at offset 12 is never the reverse link, which is at offset   *)
(* n*(n-1).                                                                *)
(***************************************************************************)
Reverse(ab) == <<ab[2], ab[1]>>

\* the link id at the given offset from lid, the way make_animation picks
\* the side
AtOffset(lid, off) ==
    IF mesh.links[lid][1] > mesh.links[lid][2] THEN lid - off ELSE lid + off

IsReverse(lid, other) ==
    other \in DOMAIN mesh.links /\ mesh.links[other] = Reverse(mesh.links[lid])

C27_SiblingIsReverseOnlyFor4 ==
    MeshBuilt =>
        /\ mesh_dim = 4 =>
              \A lid \in DOMAIN mesh.links : IsReverse(lid, SiblingOf(lid))
        /\ mesh_dim # 4 =>
              \A lid \in DOMAIN mesh.links : ~IsReverse(lid, SiblingOf(lid))
        /\ \A lid \in DOMAIN mesh.links :
              /\ IsReverse(lid, AtOffset(lid, mesh_dim * (mesh_dim - 1)))
              /\ \A other \in DOMAIN mesh.links :
                    IsReverse(lid, other) => other = AtOffset(lid, mesh_dim * (mesh_dim - 1))
        /\ (mesh_dim = 4 /\ fig.built) =>
              \A lid \in DOMAIN mesh.links :
                  fig.frames[1].links[lid].color = "red" <=>
                      \E l \in DOMAIN snapshots[0].links :
                          l = lid \/ (l \in DOMAIN mesh.links /\ IsReverse(l, lid))

\* a flit on link 3 of the 4 x 4 mesh: link 15 is its reverse and is
\* highlighted with it
C27_Witness ==
    /\ pc = "animated"
    /\ mesh_dim = 4
    /\ fig.built
    /\ 3 \in DOMAIN snapshots[0].links
    /\ SiblingOf(3) = 15
    /\ IsReverse(3, 15)
    /\ fig.frames[1].links[15].color = "red"
    /\ fig.frames[1].links[15].text = <<>>

\* a flit on link 10 of the 5 x 5 mesh: link 22 is highlighted with it and
\* is not its reverse
C27_WitnessOtherSize ==
    /\ pc = "animated"
    /\ mesh_dim = 5
    /\ fig.built
    /\ 10 \in DOMAIN snapshots[0].links
    /\ SiblingOf(22) = 10
    /\ ~IsReverse(22, 10)
    /\ fig.frames[1].links[22].color = "red"

(***************************************************************************)
(* C28.  The initial display state of the figure is its first frame (the   *)
(* frame of sample tick 0): every router has the same size and highlight,  *)
(* every link the same width and highlight, for any snapshot mapping.      *)
(***************************************************************************)
C28_InitialIsFirstFrame ==
    fig.built =>
        /\ fig.frames[1].name = 0
        /\ \A r \in DOMAIN mesh.routers :
              /\ fig.data.routers[r].size = fig.frames[1].routers[r].size
              /\ fig.data.routers[r].color = fig.frames[1].routers[r].color
        /\ \A lid \in DOMAIN mesh.links :
              /\ fig.data.links[lid].width = fig.frames[1].links[lid].width
              /\ fig.data.links[lid].color = fig.frames[1].links[lid].color

\* the sizes and widths do agree: the difference is in the highlight only
C28_SizesAgree ==
    fig.built =>
        /\ \A r \in DOMAIN mesh.routers :
              fig.data.routers[r].size = fig.frames[1].routers[r].size
        /\ \A lid \in DOMAIN mesh.links :
              fig.data.links[lid].width = fig.frames[1].links[lid].width

(***************************************************************************)
(* C29.  A second Inject of a flow that is tracked and placed at a router  *)
(* or on a link.  As claimed: the placement is left as it was.  What       *)
(* holds: the Inject unsets the location, so the flow is in no router or   *)
(* link list of the snapshot taken after it, and stays out of the          *)
(* snapshots until a location event places it again; no other flow moves.  *)
(***************************************************************************)
\* the event about to be applied is an Inject of a flow the table places
ReinjectOfPlaced ==
    /\ pc = "track"
    /\ idx <= Len(events)
    /\ events[idx].event = "RI"
    /\ events[idx].global_id \in FlowsIn(Snapshot(flit_locations))

C29_AsClaimed ==
    [][ReinjectOfPlaced =>
          Places(Snapshot(flit_locations'), events[idx].global_id)
              = Places(Snapshot(flit_locations), events[idx].global_id)]_vars

C29_ReinjectStep ==
    ReinjectOfPlaced =>
        LET g == events[idx].global_id
        IN  /\ Places(Snapshot(flit_locations'), g) = {}
            /\ g \notin FlowsIn(tick_states'[events[idx].tick])
            /\ g \in Keys(flit_locations')
            /\ \A h \in Keys(flit_locations) \ {g} :
                  Places(Snapshot(flit_locations'), h) = Places(Snapshot(flit_locations), h)

C29_ReinjectUnsetsLocation ==
    /\ [][C29_ReinjectStep]_vars
    /\ [](Returned =>
             \A t \in DOMAIN snapshots : \A g \in EventFlows :
                 (/\ InjectedNotPlaced(g, t)
                  /\ LastIdx(g, t, PlacingKinds) > 0) => Places(snapshots[t], g) = {})

\* a flow placed at tick 0 and injected again at tick 1: in the snapshot of
\* tick 0, in none of tick 1
C29_Witness ==
    /\ Returned
    /\ \E g \in EventFlows : \E t1, t2 \in DOMAIN snapshots :
          /\ t1 < t2
          /\ Places(snapshots[t1], g) # {}
          /\ Places(snapshots[t2], g) = {}
          /\ LastIdx(g, t2, {"RI"}) > LastIdx(g, t2, PlacingKinds)
          /\ LastIdx(g, t2, PlacingKinds) > 0
          /\ LastIdx(g, t2, {"SE"}) = 0

(***************************************************************************)
(* C30: on the run page each click of the run button causes at most one    *)
(* invocation of the simulator, and after every outcome of the execution   *)
(* block is_running is False again before the page is next rendered, so    *)
(* that the run button is never rendered disabled.                         *)
(***************************************************************************)
C30_AtMostOneInvocationPerClick == invocations <= clicks

C30_AsClaimed ==
    /\ invocations <= clicks
    /\ pc = "script" => ~session_state.is_running
    /\ ~ui[1].disabled

\* the four outcomes of the try statement do restore is_running
C30_TryOutcomesRestore ==
    [][invocations' # invocations =>
          /\ ~session_state'.is_running
          /\ ~session_state'.run_triggered
          /\ session_state.run_triggered]_vars

\* a button that was rendered disabled stays disabled
C30_DisabledForGood == [][ui[1].disabled => ui'[1].disabled]_vars

C30_ButtonDisabled == pc = "idle" /\ ui[1].disabled

====
